---- MODULE Spec2Model ----
(***************************************************************************)
(* AgriSense ml-service: the eligibility-and-ranking pipeline.             *)
(*                                                                         *)
(*   rules_engine.py        RulesEngine (leaf rules, nested AND/OR groups) *)
(*   eligibility_engine.py  EligibilityScoringEngine.calculate_score       *)
(*   ranking_engine.py      RankingEngine.rank_schemes                     *)
(*   hybrid_model.py        HybridModel.predict_probability                *)
(*   api/schemes.py         match_schemes                                  *)
(*                                                                         *)
(* Conventions.  A Python value is a record [t, n, s, l]: t is its type    *)
(* ("none", "bool", "int", "float", "str", "list"), n its number, s its    *)
(* text and l its elements.  A text is a sequence of pieces whose          *)
(* concatenation is the Python string; texts that the code searches for    *)
(* substrings are cut into single characters.  Floats are the integral     *)
(* ones.  A Python dict is a record whose DOMAIN is its set of keys.  A    *)
(* call returns [raised, exc, ...]: raised = TRUE is an exception leaving  *)
(* the function.                                                           *)
(***************************************************************************)
EXTENDS Integers, Sequences, FiniteSets, TLC

VARIABLES
    profile,        \* the FarmerProfile of the call or request
    rule,           \* the leaf rule handed to _evaluate_rule
    rule_result,    \* what _evaluate_rule returned
    scheme,         \* the scheme handed to evaluate_scheme and calculate_score
    scheme_result,  \* what evaluate_scheme returned
    available_documents,    \* the available_documents of calculate_score
    score_result,   \* what calculate_score returned
    request,        \* the SchemeMatchRequest: schemes, documents, top_k
    engine_schemes, \* RulesEngine.schemes, the loaded catalogue
    model,          \* HybridModel.model, the loaded estimator
    eligible_results,   \* what find_eligible_schemes returned
    response,       \* the answer of match_schemes
    label_input,    \* the final_percentage that calculate_score labels
    label_result,   \* the label and status calculate_score gave it
    prob_result,    \* what predict_probability returned to rank_schemes
    rank_result,    \* what _calculate_rank_score returned
    benefit_result, \* what _estimate_benefit returned to rank_schemes
    why_result,     \* what _build_why_array returned
    first_response, \* the answer of match_schemes to the same request before
    run,            \* how many times the request has been sent
    loop_i,         \* the turn of the loop of rank_schemes
    recommendations,    \* the list rank_schemes has built so far
    slow_calls,     \* the turns in which the estimator does not answer
    iterated,       \* schemes_to_eval: the list find_eligible_schemes iterates
    loaded,         \* the local list schemes of a running reload_schemes
    reload_pc,      \* where the thread that calls reload_schemes is
    published,      \* the catalogues that self.schemes has held
    reloads,        \* how many times reload_schemes has been called
    global_engine,  \* the module global _rules_engine: 0 is None
    thread_pc,      \* where each caller of get_rules_engine is
    thread_engine,  \* the engine each caller has built or been given
    constructed,    \* how many RulesEngine instances have been built
    pc              \* where the call or request is

ruleVars == <<rule, rule_result>>

schemeVars == <<scheme, scheme_result, available_documents, score_result>>

engineVars == <<engine_schemes, model>>

requestVars == <<request, eligible_results, response>>

stepVars == <<label_input, label_result, prob_result, rank_result, benefit_result>>

loopVars == <<loop_i, recommendations, slow_calls>>

reloadVars == <<iterated, loaded, reload_pc, published, reloads>>

singletonVars == <<global_engine, thread_pc, thread_engine, constructed>>

lateVars == <<why_result, first_response, run, loopVars, reloadVars, singletonVars>>

vars == <<profile, ruleVars, schemeVars, engineVars, requestVars, stepVars, lateVars,
          pc>>

----------------------------------------------------------------------------
(* Python values                                                           *)

PyNone == [t |-> "none", n |-> 0, s |-> <<>>, l |-> <<>>]

PyBool(b) == [t |-> "bool", n |-> IF b THEN 1 ELSE 0, s |-> <<>>, l |-> <<>>]

PyInt(k) == [t |-> "int", n |-> k, s |-> <<>>, l |-> <<>>]

PyFloat(k) == [t |-> "float", n |-> k, s |-> <<>>, l |-> <<>>]

PyStr(cs) == [t |-> "str", n |-> 0, s |-> cs, l |-> <<>>]

PyList(vs) == [t |-> "list", n |-> 0, s |-> <<>>, l |-> vs]

IsNumber(v) == v.t \in {"bool", "int", "float"}

\* bool(v): Python truthiness
Truthy(v) ==
    CASE v.t = "none" -> FALSE
      [] IsNumber(v) -> v.n # 0
      [] v.t = "str" -> v.s # <<>>
      [] v.t = "list" -> v.l # <<>>

\* a == b on the values above (elements of a list are scalars)
ScalarEq(a, b) ==
    CASE IsNumber(a) /\ IsNumber(b) -> a.n = b.n
      [] a.t = "str" /\ b.t = "str" -> a.s = b.s
      [] a.t = "none" /\ b.t = "none" -> TRUE
      [] OTHER -> FALSE

PyEq(a, b) ==
    IF a.t = "list" /\ b.t = "list"
    THEN /\ Len(a.l) = Len(b.l)
         /\ \A i \in 1..Len(a.l) : ScalarEq(a.l[i], b.l[i])
    ELSE ScalarEq(a, b)

\* str.lower() of one character
LowerChar(c) ==
    CASE c = "A" -> "a" [] c = "B" -> "b" [] c = "C" -> "c" [] c = "D" -> "d"
      [] c = "E" -> "e" [] c = "F" -> "f" [] c = "G" -> "g" [] c = "H" -> "h"
      [] c = "I" -> "i" [] c = "J" -> "j" [] c = "K" -> "k" [] c = "L" -> "l"
      [] c = "M" -> "m" [] c = "N" -> "n" [] c = "O" -> "o" [] c = "P" -> "p"
      [] c = "Q" -> "q" [] c = "R" -> "r" [] c = "S" -> "s" [] c = "T" -> "t"
      [] c = "U" -> "u" [] c = "V" -> "v" [] c = "W" -> "w" [] c = "X" -> "x"
      [] c = "Y" -> "y" [] c = "Z" -> "z" [] OTHER -> c

\* str.lower() of a text cut into characters
Lower(cs) == [i \in 1..Len(cs) |-> LowerChar(cs[i])]

Digit(d) ==
    CASE d = 0 -> "0" [] d = 1 -> "1" [] d = 2 -> "2" [] d = 3 -> "3"
      [] d = 4 -> "4" [] d = 5 -> "5" [] d = 6 -> "6" [] d = 7 -> "7"
      [] d = 8 -> "8" [] d = 9 -> "9"

DigitValue(c) ==
    CASE c = "0" -> 0 [] c = "1" -> 1 [] c = "2" -> 2 [] c = "3" -> 3
      [] c = "4" -> 4 [] c = "5" -> 5 [] c = "6" -> 6 [] c = "7" -> 7
      [] c = "8" -> 8 [] c = "9" -> 9 [] OTHER -> -1

RECURSIVE Digits(_)
\* str(k) of a non-negative int
Digits(k) == IF k < 10 THEN <<Digit(k)>> ELSE Digits(k \div 10) \o <<Digit(k % 10)>>

RECURSIVE ParseDigits(_, _)
\* the number a run of digits denotes, acc the value of the digits read
ParseDigits(cs, acc) ==
    IF cs = <<>> THEN acc ELSE ParseDigits(Tail(cs), 10 * acc + DigitValue(Head(cs)))

\* str(v) of a scalar
ScalarStr(v) ==
    CASE v.t = "none" -> <<"N", "o", "n", "e">>
      [] v.t = "bool" -> IF v.n = 1 THEN <<"T", "r", "u", "e">>
                                    ELSE <<"F", "a", "l", "s", "e">>
      [] v.t = "int" -> Digits(v.n)
      [] v.t = "float" -> Digits(v.n) \o <<".", "0">>
      [] v.t = "str" -> v.s
      [] OTHER -> <<>>

\* repr(v) of a list element
ScalarRepr(v) == IF v.t = "str" THEN <<"'">> \o v.s \o <<"'">> ELSE ScalarStr(v)

RECURSIVE JoinReprs(_)
JoinReprs(vs) ==
    IF vs = <<>> THEN <<>>
    ELSE IF Len(vs) = 1 THEN ScalarRepr(vs[1])
    ELSE ScalarRepr(vs[1]) \o <<",", " ">> \o JoinReprs(Tail(vs))

\* str(v)
Str(v) == IF v.t = "list" THEN <<"[">> \o JoinReprs(v.l) \o <<"]">> ELSE ScalarStr(v)

\* x in y for two str
IsSubstring(x, y) ==
    \E i \in 0..(Len(y) - Len(x)) : SubSeq(y, i + 1, i + Len(x)) = x

\* float(v): [ok, n]; ok = FALSE is the ValueError / TypeError of float().
\* A str converts when it is a run of digits.
ToFloat(v) ==
    CASE IsNumber(v) -> [ok |-> TRUE, n |-> v.n]
      [] v.t = "str" ->
            IF v.s # <<>> /\ \A i \in 1..Len(v.s) : DigitValue(v.s[i]) >= 0
            THEN [ok |-> TRUE, n |-> ParseDigits(v.s, 0)]
            ELSE [ok |-> FALSE, n |-> 0]
      [] OTHER -> [ok |-> FALSE, n |-> 0]

\* x in b: [ok, v]; ok = FALSE is the TypeError of a non-iterable b, or of a
\* non-str x searched in a str b
PyIn(x, b) ==
    CASE b.t = "list" -> [ok |-> TRUE, v |-> \E i \in 1..Len(b.l) : PyEq(x, b.l[i])]
      [] b.t = "str" ->
            IF x.t = "str" THEN [ok |-> TRUE, v |-> IsSubstring(x.s, b.s)]
                           ELSE [ok |-> FALSE, v |-> FALSE]
      [] OTHER -> [ok |-> FALSE, v |-> FALSE]

----------------------------------------------------------------------------
(* rules_engine.py: leaf rules                                             *)

\* dict.get(k, default)
Get(d, k, default) == IF k \in DOMAIN d THEN d[k] ELSE default

\* The operator table without its case-insensitive 'equals'
OPERATORS_NoEquals ==
    {"==", "!=", "<", "<=", ">", ">=", "in", "not_in", "contains", "any_in"}

\* The keys of RulesEngine.OPERATORS
OPERATORS ==
    {"==", "!=", "<", "<=", ">", ">=", "in", "not_in", "contains", "any_in", "equals"}

\* float(a) ? float(b) for the four ordering operators
Compare(op, a, b) ==
    LET fa == ToFloat(a)
        fb == ToFloat(b)
    IN  IF ~fa.ok \/ ~fb.ok THEN [ok |-> FALSE, v |-> FALSE]
        ELSE [ok |-> TRUE,
              v |-> CASE op = "<" -> fa.n < fb.n
                      [] op = "<=" -> fa.n <= fb.n
                      [] op = ">" -> fa.n > fb.n
                      [] op = ">=" -> fa.n >= fb.n]

\* any(x in b for x in a): the first x in b that is true ends the scan, one
\* that raises before it ends the call
AnyIn(a, b) ==
    LET hit == {i \in 1..Len(a.l) : PyIn(a.l[i], b).ok /\ PyIn(a.l[i], b).v}
        err == {i \in 1..Len(a.l) : ~PyIn(a.l[i], b).ok}
    IN  IF \E e \in err : \A h \in hit : e < h
        THEN [ok |-> FALSE, v |-> FALSE]
        ELSE [ok |-> TRUE, v |-> hit # {}]

\* OPERATORS[op](a, b): [ok, v]; ok = FALSE is an exception of the lambda
ApplyOperator(op, a, b) ==
    CASE op = "==" -> [ok |-> TRUE, v |-> PyEq(a, b)]
      [] op = "!=" -> [ok |-> TRUE, v |-> ~PyEq(a, b)]
      [] op \in {"<", "<=", ">", ">="} -> Compare(op, a, b)
      [] op = "in" ->
            IF b.t = "list" THEN PyIn(a, b)
            ELSE [ok |-> TRUE, v |-> IsSubstring(Lower(Str(a)), Lower(Str(b)))]
      [] op = "not_in" ->
            IF b.t = "list" THEN [ok |-> TRUE, v |-> ~PyIn(a, b).v]
            ELSE [ok |-> TRUE, v |-> ~IsSubstring(Lower(Str(a)), Lower(Str(b)))]
      [] op = "contains" ->
            IF a.t = "list"
            THEN [ok |-> TRUE,
                  v |-> \E i \in 1..Len(a.l) :
                            IsSubstring(Lower(Str(b)), Lower(Str(a.l[i])))]
            ELSE [ok |-> TRUE, v |-> IsSubstring(Lower(Str(b)), Lower(Str(a)))]
      [] op = "any_in" -> IF a.t = "list" THEN AnyIn(a, b) ELSE PyIn(a, b)
      [] op = "equals" -> [ok |-> TRUE, v |-> Lower(Str(a)) = Lower(Str(b))]

\* field.lower() of a rule's field name
FieldLower(f) ==
    CASE f = "Land_Area" -> "land_area"
      [] f = "STATE" -> "state"
      [] f = "Family_Count" -> "family_count"
      [] OTHER -> f

\* x.lower() if x else default
LowerOr(x, default) == IF Truthy(x) THEN PyStr(Lower(x.s)) ELSE PyStr(default)

\* The dict field_mapping of _get_profile_value
field_mapping(p) ==
    [acreage |-> p.acreage,
     land_area |-> p.acreage,
     income |-> p.annual_income,
     annual_income |-> p.annual_income,
     family_count |-> p.family_count,
     family_size |-> p.family_count,
     state |-> PyStr(Lower(p.state.s)),
     district |-> PyStr(Lower(p.district.s)),
     land_type |-> p.land_type,
     farmer_type |-> p.farmer_type,
     crops |-> p.main_crops,
     main_crops |-> p.main_crops,
     education_level |-> LowerOr(p.education_level, <<"n", "o", "n", "e">>),
     irrigation_available |-> p.irrigation_available,
     loan_status |-> LowerOr(p.loan_status, <<"n", "o", "n", "e">>),
     bank_account_linked |-> p.bank_account_linked,
     aadhaar_linked |-> p.aadhaar_linked,
     caste_category |->
         LowerOr(p.caste_category, <<"g", "e", "n", "e", "r", "a", "l">>),
     livestock |-> p.livestock,
     soil_type |-> LowerOr(p.soil_type, <<"u", "n", "k", "n", "o", "w", "n">>),
     water_source |-> LowerOr(p.water_source, <<"r", "a", "i", "n", "f", "e", "d">>),
     machinery_owned |-> p.machinery_owned]

\* RulesEngine._get_profile_value
_get_profile_value(p, field) == Get(field_mapping(p), FieldLower(field), PyNone)

\* What a call that raised returns in place of a RuleMatch
NoRuleMatch ==
    [rule_id |-> PyNone, field |-> "", operator |-> "", expected_value |-> PyNone,
     actual_value |-> PyNone, passed |-> FALSE, description |-> PyNone]

\* schemas.RuleMatch(...): rule_id and description are declared str, so the
\* constructor raises a ValidationError on None
RuleMatch(rule_id, field, operator, expected_value, actual_value, passed, description) ==
    IF rule_id.t = "str" /\ description.t = "str"
    THEN [raised |-> FALSE, exc |-> "",
          value |-> [rule_id |-> rule_id, field |-> field, operator |-> operator,
                     expected_value |-> expected_value,
                     actual_value |-> actual_value,
                     passed |-> passed, description |-> description]]
    ELSE [raised |-> TRUE, exc |-> "ValidationError", value |-> NoRuleMatch]

\* RulesEngine._evaluate_rule
_evaluate_rule(r, p) ==
    LET field == Get(r, "field", "")
        operator == Get(r, "operator", "==")
        expected_value == Get(r, "value", PyNone)
        rule_id == Get(r, "id", PyStr(<<field, "_", operator>>))
        description ==
            Get(r, "description",
                PyStr(<<field, " ", operator, " ">> \o Str(expected_value)))
        actual_value == _get_profile_value(p, field)
    IN  IF actual_value.t = "none"
        THEN RuleMatch(rule_id, field, operator, expected_value, PyNone, FALSE,
                       PyStr(<<"Field '", field, "' not found in profile">>))
        ELSE IF operator \notin OPERATORS
        THEN RuleMatch(rule_id, field, operator, expected_value, actual_value, FALSE,
                       PyStr(<<"Unknown operator: ", operator>>))
        ELSE LET res == ApplyOperator(operator, actual_value, expected_value)
                 passed == IF res.ok THEN res.v ELSE FALSE
             IN  RuleMatch(rule_id, field, operator, expected_value, actual_value,
                           passed, description)

----------------------------------------------------------------------------
(* rules_engine.py: groups and schemes                                     *)

\* logic.upper()
Upper(logic) ==
    CASE logic = "and" -> "AND"
      [] logic = "or" -> "OR"
      [] logic = "any" -> "ANY"
      [] OTHER -> logic

\* A verdict that takes every logic for AND
GroupPassed_AlwaysAnd(logic, matched_rules, failing_rules) ==
    Len(failing_rules) = 0

\* The verdict of a group from its two lists
GroupPassed(logic, matched_rules, failing_rules) ==
    IF Upper(logic) = "AND"
    THEN Len(failing_rules) = 0
    ELSE Len(matched_rules) > 0

RECURSIVE _evaluate_condition_group(_, _, _)
RECURSIVE EvaluateConditions(_, _, _)

\* The loop of _evaluate_condition_group over the conditions left, acc the
\* two lists so far; an exception of a rule ends the loop
EvaluateConditions(conditions, p, acc) ==
    IF conditions = <<>> \/ acc.raised THEN acc
    ELSE LET condition == Head(conditions)
         IN  IF "conditions" \in DOMAIN condition
             THEN LET nested == _evaluate_condition_group(
                                    condition.conditions, p,
                                    Get(condition, "logic", "AND"))
                  IN  IF nested.raised
                      THEN [acc EXCEPT !.raised = TRUE, !.exc = nested.exc]
                      ELSE IF nested.passed
                      THEN EvaluateConditions(Tail(conditions), p,
                               [acc EXCEPT !.matched_rules = @ \o nested.matched_rules])
                      ELSE EvaluateConditions(Tail(conditions), p,
                               [acc EXCEPT !.failing_rules = @ \o nested.failing_rules])
             ELSE LET result == _evaluate_rule(condition, p)
                  IN  IF result.raised
                      THEN [acc EXCEPT !.raised = TRUE, !.exc = result.exc]
                      ELSE IF result.value.passed
                      THEN EvaluateConditions(Tail(conditions), p,
                               [acc EXCEPT !.matched_rules = Append(@, result.value)])
                      ELSE EvaluateConditions(Tail(conditions), p,
                               [acc EXCEPT !.failing_rules = Append(@, result.value)])

\* The return of _evaluate_condition_group from its logic and the two lists
GroupResult(logic, lists) ==
    [raised |-> lists.raised, exc |-> lists.exc,
     passed |-> GroupPassed(logic, lists.matched_rules, lists.failing_rules),
     matched_rules |-> lists.matched_rules,
     failing_rules |-> lists.failing_rules]

\* RulesEngine._evaluate_condition_group
_evaluate_condition_group(conditions, p, logic) ==
    GroupResult(logic,
                EvaluateConditions(conditions, p,
                                   [raised |-> FALSE, exc |-> "",
                                    matched_rules |-> <<>>, failing_rules |-> <<>>]))

\* A confidence that counts the failing rules instead of the matched ones
Confidence_OfFailing(matched_rules, failing_rules) ==
    LET total_rules == Len(matched_rules) + Len(failing_rules)
    IN  IF total_rules > 0
        THEN [num |-> Len(failing_rules), den |-> total_rules]
        ELSE [num |-> 1, den |-> 1]

\* matched / total as the fraction [num, den]; 1.0 is [1, 1]
Confidence(matched_rules, failing_rules) ==
    LET total_rules == Len(matched_rules) + Len(failing_rules)
    IN  IF total_rules > 0
        THEN [num |-> Len(matched_rules), den |-> total_rules]
        ELSE [num |-> 1, den |-> 1]

\* The return of evaluate_scheme for a non-empty rule list, from the return
\* of _evaluate_condition_group
SchemeResult(group) ==
    [raised |-> group.raised, exc |-> group.exc,
     passed |-> group.passed,
     matched_rules |-> group.matched_rules,
     failing_rules |-> group.failing_rules,
     confidence |-> Confidence(group.matched_rules, group.failing_rules)]

\* An evaluate_scheme whose answer for an empty rule list is confidence 0.0
evaluate_scheme_ZeroConfidence(sch, p) ==
    IF Get(sch, "rules", <<>>) = <<>>
    THEN [raised |-> FALSE, exc |-> "", passed |-> TRUE,
          matched_rules |-> <<>>, failing_rules |-> <<>>,
          confidence |-> [num |-> 0, den |-> 1]]
    ELSE SchemeResult(_evaluate_condition_group(Get(sch, "rules", <<>>), p,
                                                Get(sch, "rules_logic", "AND")))

\* RulesEngine.evaluate_scheme
evaluate_scheme(sch, p) ==
    IF Get(sch, "rules", <<>>) = <<>>
    THEN [raised |-> FALSE, exc |-> "", passed |-> TRUE,
          matched_rules |-> <<>>, failing_rules |-> <<>>,
          confidence |-> [num |-> 1, den |-> 1]]
    ELSE SchemeResult(_evaluate_condition_group(Get(sch, "rules", <<>>), p,
                                                Get(sch, "rules_logic", "AND")))

----------------------------------------------------------------------------
(* eligibility_engine.py                                                   *)

\* Weights with those of location and farmer type exchanged
WEIGHTS_Exchanged ==
    [land |-> 20, income |-> 20, crop |-> 20, location |-> 10, farmentype |-> 15,
     documents |-> 10, special |-> 5]

\* EligibilityScoringEngine.WEIGHTS, in hundredths
WEIGHTS ==
    [land |-> 20, income |-> 20, crop |-> 20, location |-> 15, farmentype |-> 10,
     documents |-> 10, special |-> 5]

\* The order of the keys of WEIGHTS
WeightKeys ==
    <<"land", "income", "crop", "location", "farmentype", "documents", "special">>

\* The dict categories of calculate_score
categories ==
    [land |-> {"acreage", "land_area", "land_type"},
     income |-> {"income", "annual_income"},
     crop |-> {"crops", "main_crops"},
     location |-> {"state", "district", "village"},
     farmentype |-> {"farmer_type"},
     documents |-> {},
     special |-> {"irrigation_available", "caste_category", "livestock", "soil_type",
                  "water_source", "machinery_owned", "education_level",
                  "bank_account_linked", "aadhaar_linked", "loan_status"}]

\* The rules of all_rules that get_cat_score counts for a category
CategoryRules(category_fields, all_rules) ==
    SelectSeq(all_rules, LAMBDA r : FieldLower(r.field) \in category_fields)

\* A category score that counts the failing rules of the category
get_cat_score_OfFailing(category_fields, all_rules) ==
    IF CategoryRules(category_fields, all_rules) = <<>>
    THEN [num |-> 1, den |-> 1]
    ELSE [num |-> Len(SelectSeq(CategoryRules(category_fields, all_rules),
                                LAMBDA r : ~r.passed)),
          den |-> Len(CategoryRules(category_fields, all_rules))]

\* get_cat_score, the inner function of calculate_score: a fraction [num, den]
get_cat_score(category_fields, all_rules) ==
    LET cat_rules == CategoryRules(category_fields, all_rules)
        passed_cat == SelectSeq(cat_rules, LAMBDA r : r.passed)
    IN  IF cat_rules = <<>>
        THEN [num |-> 1, den |-> 1]
        ELSE [num |-> Len(passed_cat), den |-> Len(cat_rules)]

\* cat_scores["documents"]: required_docs a list of str, docs a list of str
\* or None
DocumentReadiness(required_docs, docs) ==
    IF required_docs = <<>>
    THEN [num |-> 1, den |-> 1]
    ELSE IF docs.t # "none"
    THEN LET matches ==
                 {i \in 1..Len(required_docs) :
                      \E j \in 1..Len(docs.l) :
                          IsSubstring(Lower(required_docs[i]), Lower(docs.l[j].s))}
         IN  [num |-> Cardinality(matches), den |-> Len(required_docs)]
    ELSE [num |-> 1, den |-> 2]

\* round(n / d) to the nearest integer, a tie going to the even one
RoundHalfEven(n, d) ==
    LET q == n \div d
        r == n % d
    IN  IF 2 * r < d THEN q
        ELSE IF 2 * r > d THEN q + 1
        ELSE IF q % 2 = 0 THEN q ELSE q + 1

RECURSIVE WeightedSum(_, _)
\* The sum over the keys of weight * score, as a fraction; weights in
\* ten-thousandths so that the sum is the percentage in hundredths
WeightedSum(keys, cat_scores) ==
    IF keys = <<>> THEN [num |-> 0, den |-> 1]
    ELSE LET rest == WeightedSum(Tail(keys), cat_scores)
             score == cat_scores[Head(keys)]
             weight == WEIGHTS[Head(keys)] * 100
         IN  [num |-> weight * score.num * rest.den + rest.num * score.den,
              den |-> score.den * rest.den]

\* A labelling whose boundaries are exclusive
EligibilityLabel_Exclusive(final_percentage) ==
    IF final_percentage > 7000 THEN [label |-> "Eligible", status |-> "eligible"]
    ELSE IF final_percentage > 4000
    THEN [label |-> "Partial", status |-> "partially_eligible"]
    ELSE [label |-> "Not Eligible", status |-> "ineligible"]

\* The label and the status calculate_score gives final_percentage (in
\* hundredths)
EligibilityLabel(final_percentage) ==
    IF final_percentage >= 7000 THEN [label |-> "Eligible", status |-> "eligible"]
    ELSE IF final_percentage >= 4000
    THEN [label |-> "Partial", status |-> "partially_eligible"]
    ELSE [label |-> "Not Eligible", status |-> "ineligible"]

\* EligibilityScoringEngine.calculate_score; percentages are in hundredths
\* (7000 is 70.00)
calculate_score(sch, p, matched_rules, failing_rules, docs) ==
    LET all_rules == matched_rules \o failing_rules
        cat_scores ==
            [cat \in DOMAIN WEIGHTS |->
                IF cat = "documents"
                THEN DocumentReadiness(Get(sch, "required_documents", <<>>), docs)
                ELSE get_cat_score(categories[cat], all_rules)]
        weighted_score == WeightedSum(WeightKeys, cat_scores)
        final_percentage == RoundHalfEven(weighted_score.num, weighted_score.den)
    IN  [eligibility_score |-> final_percentage,
         match_percentage |-> final_percentage,
         eligibility_label |-> EligibilityLabel(final_percentage).label,
         eligibility_status |-> EligibilityLabel(final_percentage).status,
         category_scores |-> cat_scores,
         is_fully_eligible |-> \A i \in 1..Len(all_rules) : all_rules[i].passed]

----------------------------------------------------------------------------
(* hybrid_model.py                                                         *)

\* A prediction that answers 0 when the estimator raises
predict_probability_ZeroOnError(m, p, sch) ==
    IF m.kind = "none" THEN 50
    ELSE IF m.raises THEN 0
    ELSE m.prob

\* HybridModel.predict_probability, in hundredths (50 is 0.5).  The loaded
\* estimator m is [kind, prob, raises]: kind "none" is self.model = None,
\* "predict_proba" a classifier and "predict" an estimator without
\* predict_proba; prob is what it answers, raises whether it raises instead.
predict_probability(m, p, sch) ==
    IF m.kind = "none" THEN 50
    ELSE IF m.raises THEN 50
    ELSE m.prob

----------------------------------------------------------------------------
(* ranking_engine.py                                                       *)

\* A benefit estimate that is not capped at max_benefit
_estimate_benefit_Uncapped(sch, p) ==
    LET max_benefit == Get(sch, "max_benefit", PyInt(10000))
        benefit_type == Get(sch, "benefit_type", "fixed")
        per_hectare == Get(sch, "benefit_per_hectare", PyInt(5000))
        percentage == Get(sch, "benefit_percentage", PyInt(50))
        base_amount == Get(sch, "base_amount", PyInt(10000))
        TypeError == [raised |-> TRUE, exc |-> "TypeError", value |-> 0]
    IN  IF benefit_type = "per_hectare"
        THEN IF per_hectare.t = "none" THEN TypeError
             ELSE [raised |-> FALSE, exc |-> "",
                   value |-> per_hectare.n * p.acreage.n * 100]
        ELSE IF benefit_type = "percentage"
        THEN IF percentage.t = "none" \/ base_amount.t = "none" THEN TypeError
             ELSE [raised |-> FALSE, exc |-> "",
                   value |-> base_amount.n * percentage.n]
        ELSE [raised |-> FALSE, exc |-> "", value |-> max_benefit.n * 100]

\* RankingEngine._estimate_benefit, in hundredths of a rupee: [raised, exc,
\* value].  A key that is present with None (as s.dict() gives it for an
\* unset Optional[float]) is returned by dict.get as None, and arithmetic on
\* it raises TypeError.
_estimate_benefit(sch, p) ==
    LET max_benefit == Get(sch, "max_benefit", PyInt(10000))
        benefit_type == Get(sch, "benefit_type", "fixed")
        per_hectare == Get(sch, "benefit_per_hectare", PyInt(5000))
        percentage == Get(sch, "benefit_percentage", PyInt(50))
        base_amount == Get(sch, "base_amount", PyInt(10000))
        TypeError == [raised |-> TRUE, exc |-> "TypeError", value |-> 0]
        Min(a, b) == IF a <= b THEN a ELSE b
    IN  IF benefit_type = "per_hectare"
        THEN IF per_hectare.t = "none" THEN TypeError
             ELSE [raised |-> FALSE, exc |-> "",
                   value |-> Min(per_hectare.n * p.acreage.n * 100, max_benefit.n * 100)]
        ELSE IF benefit_type = "percentage"
        THEN IF percentage.t = "none" \/ base_amount.t = "none" THEN TypeError
             ELSE [raised |-> FALSE, exc |-> "",
                   value |-> Min(base_amount.n * percentage.n, max_benefit.n * 100)]
        ELSE [raised |-> FALSE, exc |-> "", value |-> max_benefit.n * 100]

\* A rank score that weighs the priority 0.10 instead of 0.15
_calculate_rank_score_PriorityTenth(eligibility_score, sch, p, doc_readiness, success_prob) ==
    LET estimate == _estimate_benefit(sch, p)
        priority == Get(sch, "priority_weight", 100)
        den == 2000 * doc_readiness.den
        total_score == 700 * eligibility_score * doc_readiness.den
                           + (IF estimate.value <= 5000000 THEN estimate.value
                              ELSE 5000000) * doc_readiness.den
                           + 10 * (IF priority <= 100 THEN priority ELSE 100) * den
                           + 1000 * doc_readiness.num * 2000
                           + 10 * success_prob * den + 500 * den
        rounded == RoundHalfEven(total_score, den)
    IN  IF estimate.raised
        THEN [raised |-> TRUE, exc |-> estimate.exc, value |-> 0]
        ELSE [raised |-> FALSE, exc |-> "",
              value |-> IF rounded < 0 THEN 0
                        ELSE IF rounded > 10000 THEN 10000 ELSE rounded]

\* A rank score that is not clamped to [0, 100]
_calculate_rank_score_Unclamped(eligibility_score, sch, p, doc_readiness, success_prob) ==
    LET estimate == _estimate_benefit(sch, p)
        priority == Get(sch, "priority_weight", 100)
        den == 2000 * doc_readiness.den
        total_score == 700 * eligibility_score * doc_readiness.den
                           + (IF estimate.value <= 5000000 THEN estimate.value
                              ELSE 5000000) * doc_readiness.den
                           + 15 * (IF priority <= 100 THEN priority ELSE 100) * den
                           + 1000 * doc_readiness.num * 2000
                           + 10 * success_prob * den + 500 * den
    IN  IF estimate.raised
        THEN [raised |-> TRUE, exc |-> estimate.exc, value |-> 0]
        ELSE [raised |-> FALSE, exc |-> "", value |-> RoundHalfEven(total_score, den)]

\* RankingEngine._calculate_rank_score, in hundredths: [raised, exc, value].
\* eligibility_score and success_prob are in hundredths, doc_readiness is a
\* fraction, priority_weight is in hundredths (100 is 1.0).  The six terms
\* are summed over the denominator 2000 * doc_readiness.den.
_calculate_rank_score(eligibility_score, sch, p, doc_readiness, success_prob) ==
    LET benefit == _estimate_benefit(sch, p)
        Min(a, b) == IF a <= b THEN a ELSE b
        Max(a, b) == IF a >= b THEN a ELSE b
        priority == Get(sch, "priority_weight", 100)
        den == 2000 * doc_readiness.den
        s1 == 700 * eligibility_score * doc_readiness.den
        s2 == Min(benefit.value, 5000000) * doc_readiness.den
        s3 == 15 * Min(priority, 100) * den
        s4 == 1000 * doc_readiness.num * 2000
        s5 == 10 * success_prob * den
        s6 == 500 * den
        total_score == s1 + s2 + s3 + s4 + s5 + s6
    IN  IF benefit.raised
        THEN [raised |-> TRUE, exc |-> benefit.exc, value |-> 0]
        ELSE [raised |-> FALSE, exc |-> "",
              value |-> Min(Max(RoundHalfEven(total_score, den), 0), 10000)]

\* RankingEngine._get_confidence_level of eligibility_score / 100
_get_confidence_level(eligibility_score) ==
    IF eligibility_score >= 8000 THEN "high"
    ELSE IF eligibility_score >= 5000 THEN "medium"
    ELSE "low"

\* field.replace('_', ' ').title()
FieldTitle(f) ==
    CASE f = "acreage" -> "Acreage"
      [] f = "Land_Area" -> "Land Area"
      [] f = "state" -> "State"
      [] f = "STATE" -> "State"
      [] f = "Family_Count" -> "Family Count"
      [] f = "family_count" -> "Family Count"
      [] f = "farmer_type" -> "Farmer Type"
      [] f = "main_crops" -> "Main Crops"
      [] f = "irrigation_available" -> "Irrigation Available"
      [] f = "village" -> "Village"
      [] f = "pincode" -> "Pincode"
      [] OTHER -> f

RECURSIVE JoinStrs(_)
\* ", ".join(str(v) for v in vs)
JoinStrs(vs) ==
    IF vs = <<>> THEN <<>>
    ELSE IF Len(vs) = 1 THEN ScalarStr(vs[1])
    ELSE ScalarStr(vs[1]) \o <<",", " ">> \o JoinStrs(Tail(vs))

\* The entries that one matched rule adds to the why list: one or none
WhyOfMatched(r) ==
    IF r.operator \in {"==", "in"} /\ Truthy(r.expected_value)
    THEN LET val_str ==
                 IF r.expected_value.t = "list"
                 THEN JoinStrs(SubSeq(r.expected_value.l, 1,
                          IF Len(r.expected_value.l) < 3
                          THEN Len(r.expected_value.l) ELSE 3))
                 ELSE Str(r.expected_value)
         IN  <<<<FieldTitle(r.field), " ", r.operator, " ">> \o val_str>>
    ELSE IF r.operator \in {"<", "<=", ">", ">="} /\ r.actual_value.t # "none"
    THEN <<<<FieldTitle(r.field), " ", r.operator, " ">> \o Str(r.expected_value)
             \o <<" (check mark)">>>>
    ELSE IF Truthy(r.description) THEN <<r.description.s>>
    ELSE <<>>

RECURSIVE WhyOfAllMatched(_)
WhyOfAllMatched(rs) ==
    IF rs = <<>> THEN <<>> ELSE WhyOfMatched(Head(rs)) \o WhyOfAllMatched(Tail(rs))

\* xs[:k]
Prefix(xs, k) == SubSeq(xs, 1, IF Len(xs) < k THEN Len(xs) ELSE k)

\* A why list that takes every failing rule
_build_why_array_AllFailing(matched_rules, failing_rules) ==
    Prefix(WhyOfAllMatched(matched_rules)
               \o [i \in 1..Len(failing_rules) |->
                      <<"(cross mark) ">> \o failing_rules[i].description.s], 8)

\* RankingEngine._build_why_array
_build_why_array(matched_rules, failing_rules) ==
    LET failing == Prefix(failing_rules, 2)
        why == WhyOfAllMatched(matched_rules)
                   \o [i \in 1..Len(failing) |->
                          <<"(cross mark) ">> \o failing[i].description.s]
    IN  Prefix(why, 8)

\* RankingEngine._generate_explanation: the English text in pieces, the
\* Hindi and Marathi texts by their two variants.  benefit is in hundredths
\* of a rupee and printed in whole rupees.
_generate_explanation(sch, matched_rules, failing_rules, benefit) ==
    LET scheme_name == Get(sch, "name", "This scheme")
        rupees == Digits(RoundHalfEven(benefit, 100))
        en == IF Len(failing_rules) = 0
              THEN <<"You are fully eligible for ", scheme_name,
                     ". You could receive up to Rs ">> \o rupees \o <<". ">>
                   \o (IF matched_rules # <<>>
                       THEN <<"Key qualifications: ">> \o matched_rules[1].description.s
                       ELSE <<>>)
              ELSE IF Len(matched_rules) > Len(failing_rules)
              THEN <<"You are partially eligible for ", scheme_name,
                     ". Potential benefit: Rs ">> \o rupees \o <<". Missing: ">>
                   \o failing_rules[1].description.s
              ELSE <<"Currently not eligible for ", scheme_name, ". Main reason: ">>
                   \o failing_rules[1].description.s
        hi == IF Len(failing_rules) = 0
              THEN <<"hi: fully eligible for ", Get(sch, "name_hi", scheme_name),
                     " up to Rs ">> \o rupees
              ELSE <<"hi: partially eligible for ", Get(sch, "name_hi", scheme_name)>>
        mr == IF Len(failing_rules) = 0
              THEN <<"mr: fully eligible for ", Get(sch, "name_mr", scheme_name),
                     " up to Rs ">> \o rupees
              ELSE <<"mr: partially eligible for ", Get(sch, "name_mr", scheme_name)>>
    IN  [en |-> en, hi |-> hi, mr |-> mr]

\* schemas.SchemeRecommendation(...): success_probability is declared
\* Field(ge=0, le=1), score and eligibility_percentage Field(ge=0, le=100),
\* confidence_score Field(ge=0, le=1); the constructor raises a
\* ValidationError outside these ranges
SchemeRecommendation(rec) ==
    IF /\ rec.score >= 0 /\ rec.score <= 10000
       /\ rec.eligibility_percentage >= 0 /\ rec.eligibility_percentage <= 10000
       /\ rec.success_probability >= 0 /\ rec.success_probability <= 100
       /\ rec.confidence_score >= 0 /\ rec.confidence_score <= 10000
    THEN [raised |-> FALSE, exc |-> "", value |-> rec]
    ELSE [raised |-> TRUE, exc |-> "ValidationError", value |-> rec]

\* [d.field_name for d in documents] if documents else None: [raised, exc,
\* value].  schemas.DocumentFields declares no field_name, so reading it
\* raises AttributeError.
DocNames(documents) ==
    IF ~Truthy(documents)
    THEN [raised |-> FALSE, exc |-> "", value |-> PyNone]
    ELSE IF \E i \in 1..Len(documents.l) : "field_name" \notin DOMAIN documents.l[i]
    THEN [raised |-> TRUE, exc |-> "AttributeError", value |-> PyNone]
    ELSE [raised |-> FALSE, exc |-> "",
          value |-> PyList([i \in 1..Len(documents.l) |->
                               PyStr(documents.l[i].field_name)])]

\* One turn of the loop of rank_schemes: the recommendation of one result,
\* [raised, exc, value]
Recommend(m, result, p, documents) ==
    LET sch == result.scheme
        matched_rules == result.matched_rules
        failing_rules == result.failing_rules
        doc_names == DocNames(documents)
        e_result == calculate_score(sch, p, matched_rules, failing_rules,
                                    doc_names.value)
        eligibility_score == e_result.eligibility_score
        doc_readiness == e_result.category_scores.documents
        success_prob == predict_probability(m, p, sch)
        rank_score == _calculate_rank_score(eligibility_score, sch, p,
                                            doc_readiness, success_prob)
        benefit == _estimate_benefit(sch, p)
        explanations == _generate_explanation(sch, matched_rules, failing_rules,
                                              benefit.value)
        why_array == _build_why_array(matched_rules, failing_rules)
        rec == [scheme_id |-> Get(sch, "scheme_id", ""),
                name |-> Get(sch, "name", ""),
                name_hi |-> Get(sch, "name_hi", "None"),
                name_mr |-> Get(sch, "name_mr", "None"),
                score |-> rank_score.value,
                benefit_estimate |-> benefit.value,
                confidence |-> _get_confidence_level(eligibility_score),
                matched_rules |-> matched_rules,
                failing_rules |-> failing_rules,
                why |-> why_array,
                textual_explanation |-> explanations.en,
                textual_explanation_hi |-> explanations.hi,
                textual_explanation_mr |-> explanations.mr,
                expected_documents |-> Get(sch, "required_documents", <<>>),
                eligibility_status |-> e_result.eligibility_status,
                eligibility_percentage |-> eligibility_score,
                success_probability |-> success_prob,
                confidence_score |-> eligibility_score]
        NoRec == [scheme_id |-> Get(sch, "scheme_id", "")]
    IN  IF doc_names.raised
        THEN [raised |-> TRUE, exc |-> doc_names.exc, value |-> NoRec]
        ELSE IF rank_score.raised
        THEN [raised |-> TRUE, exc |-> rank_score.exc, value |-> NoRec]
        ELSE SchemeRecommendation(rec)

\* The first component of the sort key of rank_schemes
StatusBucket(x) ==
    IF x.eligibility_status = "eligible" THEN 0
    ELSE IF x.eligibility_status = "partially_eligible" THEN 1 ELSE 2

\* key(a) < key(b) for the key (bucket, -score)
KeyLess(a, b) ==
    \/ StatusBucket(a) < StatusBucket(b)
    \/ StatusBucket(a) = StatusBucket(b) /\ (0 - a.score) < (0 - b.score)

RECURSIVE InsertSorted_BeforeEqual(_, _)
\* x put into the sorted list xs before the elements of equal key
InsertSorted_BeforeEqual(xs, x) ==
    IF xs = <<>> THEN <<x>>
    ELSE IF ~KeyLess(Head(xs), x) THEN <<x>> \o xs
    ELSE <<Head(xs)>> \o InsertSorted_BeforeEqual(Tail(xs), x)

RECURSIVE InsertSorted(_, _)
\* x put into the sorted list xs after every element whose key is not greater
InsertSorted(xs, x) ==
    IF xs = <<>> THEN <<x>>
    ELSE IF KeyLess(x, Head(xs)) THEN <<x>> \o xs
    ELSE <<Head(xs)>> \o InsertSorted(Tail(xs), x)

RECURSIVE SortRecommendations(_)
\* list.sort(key=...): ascending in the key and stable
SortRecommendations(xs) ==
    IF xs = <<>> THEN <<>>
    ELSE InsertSorted(SortRecommendations(SubSeq(xs, 1, Len(xs) - 1)), xs[Len(xs)])

\* recommendations.append(recommendation) of rank_schemes: acc with the
\* recommendation r, or with its exception
AppendRecommendation(acc, r) ==
    IF r.raised
    THEN [acc EXCEPT !.raised = TRUE, !.exc = r.exc]
    ELSE [acc EXCEPT !.value = Append(@, r.value)]

RECURSIVE RecommendAll(_, _, _, _, _)
\* The loop of rank_schemes over the results left, acc the recommendations so
\* far; an exception ends the loop
RecommendAll(m, results, p, documents, acc) ==
    IF results = <<>> \/ acc.raised THEN acc
    ELSE RecommendAll(m, Tail(results), p, documents,
                      AppendRecommendation(acc, Recommend(m, Head(results), p,
                                                          documents)))

\* The end of rank_schemes: the recommendations sorted and cut to top_k
SortedPrefix(recs, top_k) ==
    IF recs.raised
    THEN [raised |-> TRUE, exc |-> recs.exc, value |-> <<>>]
    ELSE [raised |-> FALSE, exc |-> "",
          value |-> Prefix(SortRecommendations(recs.value), top_k)]

\* RankingEngine.rank_schemes: [raised, exc, value]
rank_schemes(m, results, p, documents, top_k) ==
    SortedPrefix(RecommendAll(m, results, p, documents,
                              [raised |-> FALSE, exc |-> "", value |-> <<>>]),
                 top_k)

\* An append that reports an eligible scheme a second time
AppendResult_EligibleTwice(acc, sch, e) ==
    IF e.raised
    THEN [acc EXCEPT !.raised = TRUE, !.exc = e.exc]
    ELSE [acc EXCEPT !.value =
             @ \o [i \in 1..(IF e.passed THEN 2 ELSE 1) |->
                      [scheme |-> sch,
                       is_eligible |-> e.passed,
                       matched_rules |-> e.matched_rules,
                       failing_rules |-> e.failing_rules,
                       confidence |-> e.confidence]]]

\* results.append({...}) of find_eligible_schemes: acc with the result e of
\* evaluate_scheme for sch, or with its exception
AppendResult(acc, sch, e) ==
    IF e.raised
    THEN [acc EXCEPT !.raised = TRUE, !.exc = e.exc]
    ELSE [acc EXCEPT !.value =
             Append(@, [scheme |-> sch,
                        is_eligible |-> e.passed,
                        matched_rules |-> e.matched_rules,
                        failing_rules |-> e.failing_rules,
                        confidence |-> e.confidence])]

RECURSIVE EvaluateAll(_, _, _)
\* The loop of find_eligible_schemes over the schemes left, acc the results
\* so far; an exception ends the loop
EvaluateAll(schemes_to_eval, p, acc) ==
    IF schemes_to_eval = <<>> \/ acc.raised THEN acc
    ELSE EvaluateAll(Tail(schemes_to_eval), p,
                     AppendResult(acc, Head(schemes_to_eval),
                                  evaluate_scheme(Head(schemes_to_eval), p)))

\* RulesEngine.find_eligible_schemes: [raised, exc, value]; self_schemes is
\* self.schemes, schemes a list or None
find_eligible_schemes(self_schemes, p, schemes) ==
    EvaluateAll(IF schemes.t # "none" THEN schemes.l ELSE self_schemes, p,
                [raised |-> FALSE, exc |-> "", value |-> <<>>])

\* [s.dict() for s in request.schemes] if request.schemes else None
DynamicSchemes(request_schemes) ==
    IF Truthy(request_schemes) THEN request_schemes ELSE PyNone

----------------------------------------------------------------------------
(* The inputs of the calls                                                 *)

Owner ==
    [state |-> PyStr(<<"M", "H">>),
     district |-> PyStr(<<"P", "u", "n", "e">>),
     land_type |-> PyStr(<<"d", "r", "y">>),
     farmer_type |-> PyStr(<<"o", "w", "n", "e", "r">>),
     acreage |-> PyFloat(2),
     annual_income |-> PyFloat(3),
     family_count |-> PyInt(4),
     main_crops |-> PyList(<<PyStr(<<"r", "i", "c", "e">>)>>),
     education_level |-> PyStr(<<"B", "A">>),
     irrigation_available |-> PyBool(TRUE),
     loan_status |-> PyNone,
     bank_account_linked |-> PyBool(FALSE),
     aadhaar_linked |-> PyBool(TRUE),
     caste_category |-> PyStr(<<"O", "B", "C">>),
     livestock |-> PyList(<<PyStr(<<"c", "o", "w">>)>>),
     soil_type |-> PyNone,
     water_source |-> PyStr(<<"w", "e", "l", "l">>),
     machinery_owned |-> PyList(<<>>)]

Tenant ==
    [state |-> PyStr(<<"u", "p">>),
     district |-> PyStr(<<"A", "g", "r", "a">>),
     land_type |-> PyStr(<<"m", "i", "x", "e", "d">>),
     farmer_type |-> PyStr(<<"t", "e", "n", "a", "n", "t">>),
     acreage |-> PyFloat(0),
     annual_income |-> PyFloat(1),
     family_count |-> PyInt(1),
     main_crops |-> PyList(<<>>),
     education_level |-> PyNone,
     irrigation_available |-> PyNone,
     loan_status |-> PyStr(<<"K", "C", "C">>),
     bank_account_linked |-> PyNone,
     aadhaar_linked |-> PyBool(FALSE),
     caste_category |-> PyNone,
     livestock |-> PyList(<<>>),
     soil_type |-> PyStr(<<"c", "l", "a", "y">>),
     water_source |-> PyNone,
     machinery_owned |-> PyList(<<PyStr(<<"p", "u", "m", "p">>)>>)]

Profiles == {Owner, Tenant}

\* Field names of rules: resolvable ones (one in another case), one that is a
\* scorer category field but no profile attribute, one that is unknown
RuleFields ==
    {"acreage", "Land_Area", "state", "main_crops", "farmer_type",
     "irrigation_available", "family_count", "village", "pincode"}

\* Operator names of rules: the keys of OPERATORS, the names the design
\* document uses for the comparisons, and a misspelt one
RuleOperators ==
    {"==", "!=", "<", "<=", ">", ">=", "in", "not_in", "contains", "any_in", "equals",
     "not_equals", "less_than", "less_or_equal", "greater_than", "greater_or_equal",
     "=~"}

RuleValues ==
    {PyInt(2), PyStr(<<"2">>), PyStr(<<"m", "h">>), PyStr(<<"O", "w", "n", "e", "r">>),
     PyList(<<PyStr(<<"r", "i", "c", "e">>), PyStr(<<"m", "h">>)>>),
     PyList(<<PyInt(1), PyInt(4)>>), PyBool(TRUE), PyNone}

\* id and description of a RuleDefinition are Optional[str]: s.dict() gives
\* the key with None; a rule read from YAML may have no such key at all
RuleLabels == {PyNone, PyStr(<<"label">>)}

LeafRules ==
    LET core == [field : RuleFields, operator : RuleOperators, value : RuleValues]
        labelled == [field : RuleFields, operator : RuleOperators, value : RuleValues,
                     id : RuleLabels, description : RuleLabels]
    IN  core \cup labelled

\* The largest number of nodes (rules and groups) of a scheme's rule tree
MaxNodes == 3

\* Leaves of the rule trees: written as in the YAML catalogue (no id, no
\* description), one with an operator name that is no key of OPERATORS, and
\* one as s.dict() gives it for a RuleDefinition without id and description
TreeLeaves ==
    {[field |-> "acreage", operator |-> ">=", value |-> PyInt(2)],
     [field |-> "state", operator |-> "==", value |-> PyStr(<<"u", "p">>)],
     [field |-> "Family_Count", operator |-> "<=", value |-> PyStr(<<"2">>)],
     [field |-> "farmer_type", operator |-> "less_than", value |-> PyInt(2)],
     [field |-> "acreage", operator |-> "<", value |-> PyInt(5),
      id |-> PyNone, description |-> PyNone]}

RECURSIVE TreesOfSize(_)
RECURSIVE Forests(_)

\* The rule trees of k nodes: a leaf, or a group with or without a logic key
TreesOfSize(k) ==
    IF k = 1
    THEN TreeLeaves \cup {[conditions |-> <<>>], [logic |-> "OR", conditions |-> <<>>]}
    ELSE {[conditions |-> f] : f \in Forests(k - 1)}
         \cup {[logic |-> "OR", conditions |-> f] : f \in Forests(k - 1)}

\* The lists of rule trees of n nodes in all
Forests(n) ==
    IF n = 0 THEN {<<>>}
    ELSE UNION {{<<t>> \o f : t \in TreesOfSize(k), f \in Forests(n - k)} : k \in 1..n}

RuleLists == UNION {Forests(n) : n \in 0..MaxNodes}

Aadhaar == <<"A", "a", "d", "h", "a", "a", "r">>

Pan == <<"P", "A", "N">>

RequiredDocumentLists == {<<>>, <<Aadhaar>>, <<Aadhaar, Pan>>, <<Pan, Pan, Aadhaar>>}

AvailableDocumentLists ==
    {PyNone, PyList(<<>>),
     PyList(<<PyStr(<<"a", "a", "d", "h", "a", "a", "r", " ", "c", "a", "r", "d">>)>>),
     PyList(<<PyStr(<<"p", "a", "n">>), PyStr(<<"A", "A", "D", "H", "A", "A", "R">>)>>)}

\* Schemes that differ in their rule tree
TreeSchemes ==
    {[scheme_id |-> "s1", name |-> "Scheme", rules |-> rs, required_documents |-> <<>>]
        : rs \in RuleLists}
    \cup
    {[scheme_id |-> "s1", name |-> "Scheme", rules |-> rs, rules_logic |-> lg,
      required_documents |-> <<>>]
        : rs \in RuleLists, lg \in {"AND", "or", "any"}}

\* Schemes that differ in their required documents
DocumentSchemes ==
    {[scheme_id |-> "s1", name |-> "Scheme", rules |-> rs, required_documents |-> ds]
        : rs \in UNION {Forests(n) : n \in 0..1}, ds \in RequiredDocumentLists}

NoRuleResult == [raised |-> FALSE, exc |-> "", value |-> NoRuleMatch]

NoSchemeResult ==
    [raised |-> FALSE, exc |-> "", passed |-> FALSE, matched_rules |-> <<>>,
     failing_rules |-> <<>>, confidence |-> [num |-> 0, den |-> 1]]

NoScoreResult ==
    [eligibility_score |-> 0, match_percentage |-> 0, eligibility_label |-> "",
     eligibility_status |-> "",
     category_scores |-> [cat \in DOMAIN WEIGHTS |-> [num |-> 0, den |-> 1]],
     is_fully_eligible |-> FALSE]

NoRule == [field |-> "", operator |-> "", value |-> PyNone]

NoScheme == [scheme_id |-> "", name |-> ""]

\* The largest number of schemes in a request
MaxSchemes == 2

\* The largest top_k of a request (the schema allows 1..50)
MaxTopK == 2

LabelledRule(field, operator, value) ==
    [field |-> field, operator |-> operator, value |-> value,
     id |-> PyStr(<<field, "-rule">>), description |-> PyStr(<<"about ", field>>)]

\* s.dict() of a SchemeDefinition: every key is present, an unset Optional
\* one with None
SchemeDict(scheme_id, rules, benefit_type, per_hectare, percentage, base, docs) ==
    [scheme_id |-> scheme_id, name |-> scheme_id, name_hi |-> "None",
     name_mr |-> "None", category |-> "subsidy", description |-> "",
     max_benefit |-> PyFloat(6000), benefit_type |-> benefit_type,
     benefit_per_hectare |-> per_hectare, benefit_percentage |-> percentage,
     base_amount |-> base, priority_weight |-> 100, rules_logic |-> "AND",
     rules |-> rules, required_documents |-> docs]

\* Schemes of a request: fixed benefit with labelled rules; a rule without id
\* and description; the three benefit modes with and without their optional
\* parameters; with and without required documents; two that differ in
\* their id only
RequestSchemes ==
    {SchemeDict("pm", <<LabelledRule("acreage", ">=", PyInt(2))>>,
                "fixed", PyNone, PyNone, PyNone, <<>>),
     SchemeDict("pmk", <<LabelledRule("acreage", ">=", PyInt(2))>>,
                "fixed", PyNone, PyNone, PyNone, <<>>),
     SchemeDict("kcc", <<[field |-> "state", operator |-> "==",
                          value |-> PyStr(<<"u", "p">>),
                          id |-> PyNone, description |-> PyNone]>>,
                "fixed", PyNone, PyNone, PyNone, <<>>),
     SchemeDict("drip", <<>>, "per_hectare", PyNone, PyNone, PyNone, <<>>),
     SchemeDict("seed", <<LabelledRule("Family_Count", "<=", PyStr(<<"2">>)),
                          LabelledRule("acreage", ">=", PyInt(2))>>,
                "per_hectare", PyFloat(2000), PyNone, PyNone, <<Aadhaar>>),
     SchemeDict("loan", <<LabelledRule("state", "less_than", PyInt(1))>>,
                "percentage", PyNone, PyFloat(50), PyFloat(8000), <<Aadhaar, Pan>>),
     SchemeDict("cover", <<>>, "percentage", PyNone, PyFloat(50), PyNone, <<>>)}

RECURSIVE SeqsUpTo(_, _)
\* The sequences over S of length at most n
SeqsUpTo(S, n) ==
    IF n = 0 THEN {<<>>}
    ELSE SeqsUpTo(S, n - 1)
         \cup {Append(q, x) : q \in {r \in SeqsUpTo(S, n - 1) : Len(r) = n - 1}, x \in S}

\* request.documents: absent, empty, or DocumentFields records
RequestDocuments ==
    {PyNone, PyList(<<>>),
     PyList(<<[doc_type |-> "aadhaar", name |-> "Ramesh", id_number |-> "1234",
               land_id |-> "None", address |-> "None", geo_hints |-> "None"]>>)}

Requests ==
    [schemes : {PyNone} \cup {PyList(q) : q \in SeqsUpTo(RequestSchemes, MaxSchemes)},
     documents : RequestDocuments,
     top_k : 1..MaxTopK]

\* Catalogues the engine may have loaded from the database or the YAML file:
\* none, or two schemes written with the keys a YAML author gives
EngineCatalogues ==
    {<<>>,
     <<[scheme_id |-> "yaml-a", name |-> "A", max_benefit |-> PyInt(9000),
        rules |-> <<[logic |-> "OR",
                     conditions |-> <<[field |-> "acreage", operator |-> ">=",
                                       value |-> PyInt(2)],
                                      [field |-> "state", operator |-> "==",
                                       value |-> PyStr(<<"u", "p">>)]>>]>>,
        required_documents |-> <<Aadhaar>>],
       [scheme_id |-> "yaml-b", name |-> "B", max_benefit |-> PyInt(60000),
        priority_weight |-> 50, rules_logic |-> "OR",
        rules |-> <<[field |-> "farmer_type", operator |-> "equals",
                     value |-> PyStr(<<"O", "W", "N", "E", "R">>),
                     description |-> PyStr(<<"owner">>)]>>]>>}

\* Estimators the ranking engine may have loaded: none (no model file), a
\* classifier answering 0.8, an estimator without predict_proba answering
\* 1.2, one that raises
Estimators ==
    {[kind |-> "none", prob |-> 0, raises |-> FALSE],
     [kind |-> "predict_proba", prob |-> 80, raises |-> FALSE],
     [kind |-> "predict", prob |-> 120, raises |-> FALSE],
     [kind |-> "predict_proba", prob |-> 0, raises |-> TRUE]}

NoRequest == [schemes |-> PyNone, documents |-> PyNone, top_k |-> 1]

NoResponse ==
    [status |-> 0, detail |-> "", total_schemes_evaluated |-> 0,
     recommendations |-> <<>>]

NoEstimator == [kind |-> "none", prob |-> 0, raises |-> FALSE]

NoLabel == [label |-> "", status |-> ""]

NoNumber == [raised |-> FALSE, exc |-> "", value |-> 0]

\* The variables of the single steps, where no such step is under way
\* No reload_schemes is running
NoReload ==
    /\ iterated = <<>>
    /\ loaded = <<>>
    /\ reload_pc = "idle"
    /\ published = {}
    /\ reloads = 0

\* No caller of get_rules_engine
NoSingleton ==
    /\ global_engine = 0
    /\ thread_pc = <<>>
    /\ thread_engine = <<>>
    /\ constructed = 0

\* Nothing built yet by the later steps
NoLate ==
    /\ why_result = <<>>
    /\ first_response = NoResponse
    /\ run = 1
    /\ loop_i = 1
    /\ recommendations = [raised |-> FALSE, exc |-> "", value |-> <<>>]
    /\ slow_calls = {}
    /\ NoReload
    /\ NoSingleton

NoSteps ==
    /\ label_input = 0
    /\ label_result = NoLabel
    /\ prob_result = 0
    /\ rank_result = NoNumber
    /\ benefit_result = NoNumber

----------------------------------------------------------------------------
(* Calls of _evaluate_rule                                                 *)

InitRule ==
    /\ NoLate
    /\ profile \in Profiles
    /\ rule \in LeafRules
    /\ rule_result = NoRuleResult
    /\ scheme = NoScheme
    /\ scheme_result = NoSchemeResult
    /\ available_documents = PyNone
    /\ score_result = NoScoreResult
    /\ request = NoRequest
    /\ engine_schemes = <<>>
    /\ model = NoEstimator
    /\ eligible_results = <<>>
    /\ response = NoResponse
    /\ NoSteps
    /\ pc = "call"

EvaluateRule ==
    /\ pc = "call"
    /\ rule_result' = _evaluate_rule(rule, profile)
    /\ pc' = IF rule_result'.raised THEN "raise" ELSE "return"
    /\ UNCHANGED <<lateVars, profile, rule, schemeVars, engineVars, requestVars, stepVars>>

NextRule == EvaluateRule

SpecRule == InitRule /\ [][NextRule]_vars

----------------------------------------------------------------------------
(* Calls of evaluate_scheme, and of calculate_score on what it returned    *)

InitScheme ==
    /\ NoLate
    /\ profile \in Profiles
    /\ \/ scheme \in TreeSchemes /\ available_documents = PyNone
       \/ scheme \in DocumentSchemes /\ available_documents \in AvailableDocumentLists
    /\ rule = NoRule
    /\ rule_result = NoRuleResult
    /\ scheme_result = NoSchemeResult
    /\ score_result = NoScoreResult
    /\ request = NoRequest
    /\ engine_schemes = <<>>
    /\ model = NoEstimator
    /\ eligible_results = <<>>
    /\ response = NoResponse
    /\ NoSteps
    /\ pc = "call"

EvaluateScheme ==
    /\ pc = "call"
    /\ scheme_result' = evaluate_scheme(scheme, profile)
    /\ pc' = IF scheme_result'.raised THEN "raise" ELSE "evaluated"
    /\ UNCHANGED <<lateVars, profile, ruleVars, scheme, available_documents, score_result,
                   engineVars, requestVars, stepVars>>

CalculateScore ==
    /\ pc = "evaluated"
    /\ score_result' = calculate_score(scheme, profile, scheme_result.matched_rules,
                                       scheme_result.failing_rules,
                                       available_documents)
    /\ pc' = "scored"
    /\ UNCHANGED <<lateVars, profile, ruleVars, scheme, scheme_result, available_documents,
                   engineVars, requestVars, stepVars>>

NextScheme == EvaluateScheme \/ CalculateScore

SpecScheme == InitScheme /\ [][NextScheme]_vars

----------------------------------------------------------------------------
(* match_schemes: a request through find_eligible_schemes and rank_schemes *)

Init ==
    /\ NoLate
    /\ profile \in Profiles
    /\ request \in Requests
    /\ engine_schemes \in EngineCatalogues
    /\ model \in Estimators
    /\ eligible_results = <<>>
    /\ response = NoResponse
    /\ NoSteps
    /\ rule = NoRule
    /\ rule_result = NoRuleResult
    /\ scheme = NoScheme
    /\ scheme_result = NoSchemeResult
    /\ available_documents = PyNone
    /\ score_result = NoScoreResult
    /\ pc = "request"

\* except Exception: raise HTTPException(status_code=500, ...)
Http500(exc) ==
    [status |-> 500, detail |-> exc, total_schemes_evaluated |-> 0,
     recommendations |-> <<>>]

\* match_schemes after find_eligible_schemes has returned found
Found(found) ==
    IF found.raised
    THEN /\ pc' = "failed"
         /\ response' = Http500(found.exc)
         /\ UNCHANGED eligible_results
    ELSE /\ pc' = "found"
         /\ eligible_results' = found.value
         /\ UNCHANGED response

\* A find_eligible_schemes that takes the first scheme out of self.schemes
FindEligibleSchemes_PoppingCatalogue ==
    /\ pc = "request"
    /\ Found(find_eligible_schemes(engine_schemes, profile,
                                   DynamicSchemes(request.schemes)))
    /\ engine_schemes' = IF engine_schemes = <<>> THEN <<>> ELSE Tail(engine_schemes)
    /\ UNCHANGED <<lateVars, profile, ruleVars, schemeVars, model, request, stepVars>>

\* match_schemes up to the return of find_eligible_schemes
FindEligibleSchemes ==
    /\ pc = "request"
    /\ Found(find_eligible_schemes(engine_schemes, profile,
                                   DynamicSchemes(request.schemes)))
    /\ UNCHANGED <<lateVars, profile, ruleVars, schemeVars, engineVars, request, stepVars>>

\* match_schemes after rank_schemes has returned ranked
Ranked(ranked) ==
    IF ranked.raised
    THEN /\ pc' = "failed"
         /\ response' = Http500(ranked.exc)
    ELSE /\ pc' = "ranked"
         /\ response' = [status |-> 200, detail |-> "",
                         total_schemes_evaluated |-> Len(eligible_results),
                         recommendations |-> ranked.value]

\* A rank_schemes that empties the documents it was given
RankSchemes_ClearingDocuments ==
    /\ pc = "found"
    /\ Ranked(rank_schemes(model, eligible_results, profile, request.documents,
                           request.top_k))
    /\ request' = [request EXCEPT !.documents = PyList(<<>>)]
    /\ UNCHANGED <<lateVars, profile, ruleVars, schemeVars, engineVars,
                   eligible_results, stepVars>>

\* match_schemes from the call of rank_schemes to its response
RankSchemes ==
    /\ pc = "found"
    /\ Ranked(rank_schemes(model, eligible_results, profile, request.documents,
                           request.top_k))
    /\ UNCHANGED <<lateVars, profile, ruleVars, schemeVars, engineVars, request,
                   eligible_results, stepVars>>

Next == FindEligibleSchemes \/ RankSchemes

Spec == Init /\ [][Next]_vars

----------------------------------------------------------------------------
(* Calls of calculate_score on given lists of matched and failing rules    *)

\* The largest number of rules handed to calculate_score
MaxRules == 3

\* Fields of the rules handed to the scorer: two of land, one each of income,
\* location and special, one of no category
ScoredFields == {"acreage", "land_type", "annual_income", "state", "soil_type",
                 "Family_Count"}

\* The RuleMatch of a rule on field f with the verdict passed
Verdict(f, passed) ==
    [rule_id |-> PyStr(<<f, "-rule">>), field |-> f, operator |-> "==",
     expected_value |-> PyInt(1), actual_value |-> PyInt(IF passed THEN 1 ELSE 2),
     passed |-> passed, description |-> PyStr(<<"about ", f>>)]

Verdicts == {Verdict(f, passed) : f \in ScoredFields, passed \in BOOLEAN}

\* What evaluate_scheme hands on for the verdicts vs: the matched ones and
\* the failing ones, each in order
ListsOf(vs) ==
    [raised |-> FALSE, exc |-> "",
     passed |-> \A i \in 1..Len(vs) : vs[i].passed,
     matched_rules |-> SelectSeq(vs, LAMBDA v : v.passed),
     failing_rules |-> SelectSeq(vs, LAMBDA v : ~v.passed),
     confidence |-> [num |-> 1, den |-> 1]]

InitScore ==
    /\ NoLate
    /\ profile = Owner
    /\ scheme \in {[scheme_id |-> "s1", name |-> "Scheme", rules |-> <<>>,
                     required_documents |-> ds] : ds \in RequiredDocumentLists}
    /\ available_documents \in AvailableDocumentLists
    /\ scheme_result \in {ListsOf(vs) : vs \in SeqsUpTo(Verdicts, MaxRules)}
    /\ rule = NoRule
    /\ rule_result = NoRuleResult
    /\ score_result = NoScoreResult
    /\ request = NoRequest
    /\ engine_schemes = <<>>
    /\ model = NoEstimator
    /\ eligible_results = <<>>
    /\ response = NoResponse
    /\ NoSteps
    /\ pc = "evaluated"

NextScore == CalculateScore

SpecScore == InitScore /\ [][NextScore]_vars

----------------------------------------------------------------------------
(* The labelling step of calculate_score on given percentages              *)

\* The percentages around the two boundaries are taken this far to each side
MaxDistance == 60

\* final_percentage in hundredths: the ends of the range and the values
\* around 40.00 and 70.00
Percentages ==
    {0, 10000} \cup (4000 - MaxDistance)..(4000 + MaxDistance)
        \cup (7000 - MaxDistance)..(7000 + MaxDistance)

InitLabel ==
    /\ NoLate
    /\ label_input \in Percentages
    /\ label_result = NoLabel
    /\ prob_result = 0
    /\ rank_result = NoNumber
    /\ benefit_result = NoNumber
    /\ profile = Owner
    /\ rule = NoRule
    /\ rule_result = NoRuleResult
    /\ scheme = NoScheme
    /\ scheme_result = NoSchemeResult
    /\ available_documents = PyNone
    /\ score_result = NoScoreResult
    /\ request = NoRequest
    /\ engine_schemes = <<>>
    /\ model = NoEstimator
    /\ eligible_results = <<>>
    /\ response = NoResponse
    /\ pc = "call"

\* calculate_score from final_percentage to label and status
Label ==
    /\ pc = "call"
    /\ label_result' = EligibilityLabel(label_input)
    /\ pc' = "labelled"
    /\ UNCHANGED <<lateVars, profile, ruleVars, schemeVars, engineVars, requestVars,
                   label_input, prob_result, rank_result, benefit_result>>

NextLabel == Label

SpecLabel == InitLabel /\ [][NextLabel]_vars

----------------------------------------------------------------------------
(* One turn of the loop of rank_schemes after calculate_score: the calls   *)
(* of predict_probability, _calculate_rank_score and _estimate_benefit     *)

\* priority_weight in hundredths: unset, 1.0, 0.5, 0, 100.0 and negative
PriorityWeights == {100, 50, 0, 10000, -100}

\* max_benefit in rupees: zero, negative, usual and very large
MaxBenefits == {PyFloat(0), PyFloat(-500), PyFloat(6000), PyFloat(10000000)}

\* The benefit keys of a scheme: the three modes, each parameter set, None
\* (as s.dict() leaves an unset one) or absent (as a YAML author leaves it)
BenefitModes ==
    {[benefit_type |-> "fixed"],
     [benefit_type |-> "per_hectare", benefit_per_hectare |-> PyFloat(2000)],
     [benefit_type |-> "per_hectare", benefit_per_hectare |-> PyNone],
     [benefit_type |-> "per_hectare"],
     [benefit_type |-> "percentage", benefit_percentage |-> PyFloat(50),
      base_amount |-> PyFloat(8000)],
     [benefit_type |-> "percentage", benefit_percentage |-> PyFloat(150),
      base_amount |-> PyNone],
     [benefit_type |-> "percentage"]}

\* The dict d with the keys of e added
Merged(d, e) ==
    [k \in DOMAIN d \cup DOMAIN e |-> IF k \in DOMAIN e THEN e[k] ELSE d[k]]

RankedSchemes ==
    {Merged([scheme_id |-> "s1", name |-> "Scheme", max_benefit |-> mb,
             priority_weight |-> pw], bm)
        : mb \in MaxBenefits, pw \in PriorityWeights, bm \in BenefitModes}
    \cup {Merged([scheme_id |-> "s1", name |-> "Scheme"], bm) : bm \in BenefitModes}

\* What calculate_score returned: the percentage and the document readiness
ScoreResults ==
    {[NoScoreResult EXCEPT !.eligibility_score = e, !.match_percentage = e,
                           !.category_scores.documents = dr]
        : e \in {0, 4000, 8167, 10000},
          dr \in {[num |-> 0, den |-> 1], [num |-> 1, den |-> 3],
                  [num |-> 1, den |-> 2], [num |-> 1, den |-> 1]}}

\* Estimators with every kind of answer: none loaded, probabilities of a
\* classifier, answers of an estimator without predict_proba (negative,
\* above 1), one that raises
RankEstimators ==
    {[kind |-> "none", prob |-> 0, raises |-> FALSE],
     [kind |-> "predict_proba", prob |-> 0, raises |-> FALSE],
     [kind |-> "predict_proba", prob |-> 80, raises |-> FALSE],
     [kind |-> "predict_proba", prob |-> 100, raises |-> FALSE],
     [kind |-> "predict", prob |-> -50, raises |-> FALSE],
     [kind |-> "predict", prob |-> 120, raises |-> FALSE],
     [kind |-> "predict", prob |-> 999, raises |-> FALSE],
     [kind |-> "predict_proba", prob |-> 0, raises |-> TRUE]}

InitRank ==
    /\ NoLate
    /\ profile \in Profiles
    /\ scheme \in RankedSchemes
    /\ score_result \in ScoreResults
    /\ model \in RankEstimators
    /\ label_input = 0
    /\ label_result = NoLabel
    /\ prob_result = 0
    /\ rank_result = NoNumber
    /\ benefit_result = NoNumber
    /\ rule = NoRule
    /\ rule_result = NoRuleResult
    /\ scheme_result = NoSchemeResult
    /\ available_documents = PyNone
    /\ request = NoRequest
    /\ engine_schemes = <<>>
    /\ eligible_results = <<>>
    /\ response = NoResponse
    /\ pc = "call"

\* success_prob = self.hybrid_model.predict_probability(profile, scheme)
PredictProbability ==
    /\ pc = "call"
    /\ prob_result' = predict_probability(model, profile, scheme)
    /\ pc' = "predicted"
    /\ UNCHANGED <<lateVars, profile, ruleVars, schemeVars, engineVars, requestVars,
                   label_input, label_result, rank_result, benefit_result>>

\* rank_score = self._calculate_rank_score(...)
CalculateRankScore ==
    /\ pc = "predicted"
    /\ rank_result' = _calculate_rank_score(score_result.eligibility_score, scheme,
                                            profile,
                                            score_result.category_scores.documents,
                                            prob_result)
    /\ pc' = IF rank_result'.raised THEN "raise" ELSE "ranked"
    /\ UNCHANGED <<lateVars, profile, ruleVars, schemeVars, engineVars, requestVars,
                   label_input, label_result, prob_result, benefit_result>>

\* benefit = self._estimate_benefit(scheme, profile)
EstimateBenefit ==
    /\ pc = "ranked"
    /\ benefit_result' = _estimate_benefit(scheme, profile)
    /\ pc' = IF benefit_result'.raised THEN "raise" ELSE "estimated"
    /\ UNCHANGED <<lateVars, profile, ruleVars, schemeVars, engineVars, requestVars,
                   label_input, label_result, prob_result, rank_result>>

NextRank == PredictProbability \/ CalculateRankScore \/ EstimateBenefit

SpecRank == InitRank /\ [][NextRank]_vars

----------------------------------------------------------------------------
(* Properties of _evaluate_rule, under SpecRule                            *)

RuleField == Get(rule, "field", "")

RuleOperator == Get(rule, "operator", "==")

RuleActual == _get_profile_value(profile, RuleField)

NotFoundText == PyStr(<<"Field '", RuleField, "' not found in profile">>)

UnknownOperatorText == PyStr(<<"Unknown operator: ", RuleOperator>>)

\* C4: a leaf rule whose field does not resolve to a profile attribute, or
\* resolves to an absent value, makes _evaluate_rule return a RuleMatch with
\* passed = FALSE and the 'field not found' description; the call does not raise.
C4_UnresolvedFieldFails ==
    (pc # "call" /\ RuleActual.t = "none") =>
        /\ pc = "return"
        /\ ~rule_result.value.passed
        /\ rule_result.value.description = NotFoundText

\* C6: an ordering comparison (<, <=, >, >=) whose profile value or expected
\* value cannot be coerced to a number is reported with passed = FALSE, and
\* no error leaves the evaluation.
C6_NonNumericComparisonFails ==
    (/\ pc # "call"
     /\ RuleOperator \in {"<", "<=", ">", ">="}
     /\ (~ToFloat(RuleActual).ok \/ ~ToFloat(Get(rule, "value", PyNone)).ok)) =>
        /\ pc = "return"
        /\ ~rule_result.value.passed

\* The operator names of the design document
DocumentedOperators ==
    {"equals", "not_equals", "less_than", "less_or_equal", "greater_than",
     "greater_or_equal", "in", "not_in", "contains", "any_in"}

----------------------------------------------------------------------------
(* Properties of evaluate_scheme and calculate_score, under SpecScheme     *)

RECURSIVE FlattenedRules(_)
\* The leaf rules of a list of rule trees, in order
FlattenedRules(conditions) ==
    IF conditions = <<>> THEN <<>>
    ELSE IF "conditions" \in DOMAIN Head(conditions)
    THEN FlattenedRules(Head(conditions).conditions) \o FlattenedRules(Tail(conditions))
    ELSE <<Head(conditions)>> \o FlattenedRules(Tail(conditions))

RECURSIVE GroupsOf(_)
\* The nested groups of a list of rule trees, at every depth
GroupsOf(conditions) ==
    IF conditions = <<>> THEN {}
    ELSE IF "conditions" \in DOMAIN Head(conditions)
    THEN {Head(conditions)} \cup GroupsOf(Head(conditions).conditions)
             \cup GroupsOf(Tail(conditions))
    ELSE GroupsOf(Tail(conditions))

SchemeRules == Get(scheme, "rules", <<>>)

SchemeLogic == Get(scheme, "rules_logic", "AND")

Evaluated == pc \in {"evaluated", "scored"}

ReportedRules == scheme_result.matched_rules \o scheme_result.failing_rules

\* The RuleMatch rm is the report of the leaf rule r
ReportOf(rm, r) ==
    /\ rm.field = Get(r, "field", "")
    /\ rm.operator = Get(r, "operator", "==")
    /\ rm.expected_value = Get(r, "value", PyNone)

\* C1: the leaf rules in matched_rules together with those in failing_rules
\* are exactly the leaf rules of the flattened rule tree, whatever the verdict
\* of the nested group that holds them.
C1_NoRuleDropped ==
    Evaluated =>
        /\ Len(ReportedRules) = Len(FlattenedRules(SchemeRules))
        /\ \A i \in 1..Len(FlattenedRules(SchemeRules)) :
               \E j \in 1..Len(ReportedRules) :
                   ReportOf(ReportedRules[j], FlattenedRules(SchemeRules)[i])

\* The returned (passed, matched, failing) agree as the logic demands
VerdictAgrees(logic, result) ==
    /\ Upper(logic) = "AND" => (result.passed <=> result.failing_rules = <<>>)
    /\ Upper(logic) = "OR" => (result.passed <=> result.matched_rules # <<>>)

\* C2: _evaluate_condition_group returns passed = TRUE for logic AND iff the
\* failing list it returns is empty, and for logic OR iff the matched list it
\* returns is non-empty: for the group of the scheme and for every nested one.
C2_VerdictMatchesLists ==
    (Evaluated /\ SchemeRules # <<>>) =>
        /\ VerdictAgrees(SchemeLogic, scheme_result)
        /\ \A g \in GroupsOf(SchemeRules) :
               VerdictAgrees(Get(g, "logic", "AND"),
                             _evaluate_condition_group(g.conditions, profile,
                                                       Get(g, "logic", "AND")))

\* An OR scheme that passed although some of its rules failed
C2_Witness ==
    /\ Evaluated
    /\ Upper(SchemeLogic) = "OR"
    /\ scheme_result.passed
    /\ scheme_result.matched_rules # <<>>
    /\ scheme_result.failing_rules # <<>>

\* C5: a leaf rule whose operator is not a supported one (on a resolvable
\* field) is reported as a failing RuleMatch that names the unknown operator,
\* and every other rule of the scheme is still evaluated and reported.
C5_UnknownOperatorReported ==
    pc # "call" =>
        \A i \in 1..Len(FlattenedRules(SchemeRules)) :
            LET r == FlattenedRules(SchemeRules)[i]
            IN  (/\ Get(r, "operator", "==") \notin OPERATORS
                 /\ _get_profile_value(profile, Get(r, "field", "")).t # "none") =>
                    /\ pc # "raise"
                    /\ \E j \in 1..Len(scheme_result.failing_rules) :
                           /\ ReportOf(scheme_result.failing_rules[j], r)
                           /\ scheme_result.failing_rules[j].description =
                                  PyStr(<<"Unknown operator: ", r.operator>>)
                    /\ \A k \in 1..Len(FlattenedRules(SchemeRules)) :
                           \E j \in 1..Len(ReportedRules) :
                               ReportOf(ReportedRules[j],
                                        FlattenedRules(SchemeRules)[k])

\* C8: for a scheme with an empty rule list, evaluate_scheme returns
\* eligible = TRUE, confidence 1.0 and two empty lists, and the eligibility
\* percentage is 90 + 10 x document readiness to two decimals: never below
\* 90, and 100 when the scheme requires no documents.
C8_EmptyRuleTree ==
    (pc # "call" /\ SchemeRules = <<>>) =>
        /\ Evaluated
        /\ scheme_result.passed
        /\ scheme_result.confidence.num = scheme_result.confidence.den
        /\ scheme_result.matched_rules = <<>>
        /\ scheme_result.failing_rules = <<>>
        /\ pc = "scored" =>
               LET readiness == score_result.category_scores.documents
                   exact == 9000 * readiness.den + 1000 * readiness.num
                   shown == score_result.eligibility_score * readiness.den
               IN  /\ 2 * (shown - exact) <= readiness.den
                   /\ 2 * (exact - shown) <= readiness.den
                   /\ score_result.eligibility_score >= 9000
                   /\ score_result.eligibility_score <= 10000
                   /\ Get(scheme, "required_documents", <<>>) = <<>> =>
                          score_result.eligibility_score = 10000

\* An empty rule list scored with some but not all required documents at hand
C8_Witness ==
    /\ pc = "scored"
    /\ SchemeRules = <<>>
    /\ score_result.eligibility_score > 9000
    /\ score_result.eligibility_score < 10000
    /\ available_documents.t = "list"

\* C9: the confidence returned by evaluate_scheme is (matched rules) /
\* (matched rules + failing rules), 1.0 when that sum is zero, and lies in
\* [0, 1].
C9_ConfidenceRatio ==
    Evaluated =>
        LET m == Len(scheme_result.matched_rules)
            f == Len(scheme_result.failing_rules)
            c == scheme_result.confidence
        IN  /\ c.den > 0
            /\ 0 <= c.num /\ c.num <= c.den
            /\ m + f > 0 => c.num * (m + f) = m * c.den
            /\ m + f = 0 => c.num = c.den

\* A scheme with as many matched as failing rules
C9_Witness ==
    /\ Evaluated
    /\ Len(scheme_result.matched_rules) = 1
    /\ Len(scheme_result.failing_rules) = 1
    /\ 2 * scheme_result.confidence.num = scheme_result.confidence.den

\* The categories that count the rule of a RuleMatch
CategoriesOf(rm) == {cat \in DOMAIN categories : FieldLower(rm.field) \in categories[cat]}

\* C10: every matched or failing rule handed to the scorer, whose field the
\* rule evaluator recognises, is counted in exactly one of the seven
\* categories.
C10_OneCategoryPerRule ==
    pc = "scored" =>
        \A i \in 1..Len(ReportedRules) :
            FieldLower(ReportedRules[i].field) \in DOMAIN field_mapping(profile) =>
                Cardinality(CategoriesOf(ReportedRules[i])) = 1

----------------------------------------------------------------------------
(* Properties of match_schemes, under Spec                                 *)

\* C3: find_eligible_schemes followed by rank_schemes never raises: for every
\* profile, every catalogue the request schema accepts, every documents
\* argument and every top_k, the request ends with a list of recommendations
\* and not with an exception.
C3_PipelineNeverRaises ==
    /\ pc # "failed"
    /\ response.status # 500

----------------------------------------------------------------------------
(* Properties of calculate_score, under SpecScore                          *)

\* passed-in-category / total-in-category of the rules handed over, counted
\* rule by rule; 1.0 for a category without rules
SubScore(cat) ==
    LET counted == {i \in 1..Len(ReportedRules) :
                       FieldLower(ReportedRules[i].field) \in categories[cat]}
        passing == {i \in counted : ReportedRules[i].passed}
    IN  IF counted = {} THEN [num |-> 1, den |-> 1]
        ELSE [num |-> Cardinality(passing), den |-> Cardinality(counted)]

\* The seven sub-scores: the six rule categories counted from the lists, the
\* documents category by the document readiness the scorer reports
SubScores ==
    [land |-> SubScore("land"), income |-> SubScore("income"),
     crop |-> SubScore("crop"), location |-> SubScore("location"),
     farmentype |-> SubScore("farmentype"),
     documents |-> score_result.category_scores.documents,
     special |-> SubScore("special")]

\* The product of the seven denominators
SubScoreDen ==
    SubScores.land.den * SubScores.income.den * SubScores.crop.den
        * SubScores.location.den * SubScores.farmentype.den
        * SubScores.documents.den * SubScores.special.den

\* weight x sub-score x 100 of one category, in hundredths, over SubScoreDen
Term(weight, cat) ==
    weight * 100 * SubScores[cat].num * (SubScoreDen \div SubScores[cat].den)

\* The sum of the seven terms with the weights 20/20/20/15/10/10/5
WeightedTotal ==
    Term(20, "land") + Term(20, "income") + Term(20, "crop") + Term(15, "location")
        + Term(10, "farmentype") + Term(10, "documents") + Term(5, "special")

\* C11: the percentage calculate_score returns is the sum over the seven
\* categories of weight x sub-score x 100 (weights 20/20/20/15/10/10/5), to
\* two decimals, where the sub-score of a rule category is passed / total of
\* its rules and 1.0 without rules; it lies within [0, 100].
C11_WeightedPercentage ==
    pc = "scored" =>
        /\ 2 * (score_result.eligibility_score * SubScoreDen - WeightedTotal)
               <= SubScoreDen
        /\ 2 * (WeightedTotal - score_result.eligibility_score * SubScoreDen)
               <= SubScoreDen
        /\ score_result.eligibility_score >= 0
        /\ score_result.eligibility_score <= 10000
        /\ \A cat \in DOMAIN WEIGHTS \ {"documents"} :
               score_result.category_scores[cat].num * SubScore(cat).den
                   = SubScore(cat).num * score_result.category_scores[cat].den

\* One of three land rules passed and the documents are unknown: 81.67, a
\* percentage that the rounding to two decimals has cut
C11_Witness ==
    /\ pc = "scored"
    /\ SubScore("land").den = 3
    /\ SubScore("land").num = 1
    /\ score_result.category_scores.documents.den = 2
    /\ score_result.eligibility_score = 8167

\* xs without its i-th element
Without(xs, i) == SubSeq(xs, 1, i - 1) \o SubSeq(xs, i + 1, Len(xs))

\* The percentage calculate_score returns once the i-th failing rule of the
\* call has become a matched one, every other verdict as it was
PercentageWithMatched(i) ==
    calculate_score(scheme, profile,
                    Append(scheme_result.matched_rules,
                           [scheme_result.failing_rules[i] EXCEPT !.passed = TRUE]),
                    Without(scheme_result.failing_rules, i),
                    available_documents).eligibility_score

\* C14: for a fixed scheme, document input and rule set, changing the verdict
\* of any one rule from failing to matched never decreases the percentage
\* that calculate_score returns.
C14_MonotoneInMatchedRules ==
    pc = "scored" =>
        \A i \in 1..Len(scheme_result.failing_rules) :
            PercentageWithMatched(i) >= score_result.eligibility_score

\* A call with two failing rules of one category, where one more matched
\* rule raises the percentage
C14_Witness ==
    /\ pc = "scored"
    /\ Len(scheme_result.failing_rules) = 2
    /\ SubScore("land").den = 3
    /\ PercentageWithMatched(1) > score_result.eligibility_score

----------------------------------------------------------------------------
(* Properties of the documents in match_schemes, under Spec                *)

\* The available-document list the caller supplied: None when the request
\* has no documents, else one name for each document, be the list empty or not
SuppliedDocuments ==
    IF request.documents.t = "none" THEN PyNone
    ELSE PyList([i \in 1..Len(request.documents.l) |->
                    PyStr(<<request.documents.l[i].doc_type>>)])

\* The recommendation rec is the one of the evaluation result, scored with
\* the available documents docs
ScoredWith(rec, result, docs) ==
    /\ rec.scheme_id = Get(result.scheme, "scheme_id", "")
    /\ rec.eligibility_percentage =
           calculate_score(result.scheme, profile, result.matched_rules,
                           result.failing_rules, docs).eligibility_score

\* C12: the document readiness the pipeline scores with is 1.0 for a scheme
\* without required documents, otherwise matched / required whenever the
\* caller supplies a document list (an empty one included), and 0.5 only
\* when no list is supplied: every recommendation carries the percentage
\* that calculate_score gives for the supplied list.
C12_ReadinessOfSuppliedDocuments ==
    pc = "ranked" =>
        \A i \in 1..Len(response.recommendations) :
            \E j \in 1..Len(eligible_results) :
                ScoredWith(response.recommendations[i], eligible_results[j],
                           SuppliedDocuments)

----------------------------------------------------------------------------
(* Properties of the labelling step, under SpecLabel                       *)

\* C13: the status is an exact function of the percentage: >= 70 is
\* 'eligible', from 40 up to but not 70 is 'partially_eligible', below 40 is
\* 'ineligible'; 70.00 is eligible, 69.99 and 40.00 are partially_eligible,
\* 39.99 is ineligible.
C13_StatusBoundaries ==
    pc = "labelled" =>
        /\ label_input >= 7000 <=> label_result.status = "eligible"
        /\ (label_input >= 4000 /\ label_input < 7000) <=>
               label_result.status = "partially_eligible"
        /\ label_input < 4000 <=> label_result.status = "ineligible"
        /\ label_input = 7000 => label_result.status = "eligible"
        /\ label_input = 6999 => label_result.status = "partially_eligible"
        /\ label_input = 4000 => label_result.status = "partially_eligible"
        /\ label_input = 3999 => label_result.status = "ineligible"

\* 69.99 has been labelled partially_eligible
C13_Witness ==
    /\ pc = "labelled"
    /\ label_input = 6999
    /\ label_result.status = "partially_eligible"

----------------------------------------------------------------------------
(* Properties of the ranking steps, under SpecRank                         *)

\* The smaller of two numbers
Least(a, b) == IF a <= b THEN a ELSE b

\* The inputs of the rank score: the percentage and the success probability
\* in hundredths, the priority weight in hundredths with its default 1.0,
\* the document readiness as a fraction, the benefit estimate reported for
\* the recommendation in hundredths of a rupee
RankEligibility == score_result.eligibility_score

RankReadiness == score_result.category_scores.documents

RankPriority == IF "priority_weight" \in DOMAIN scheme THEN scheme.priority_weight ELSE 100

\* 2000 x the denominator of the readiness: the denominator of RankSum
RankDen == 2000 * RankReadiness.den

\* 0.35 x percentage + 0.25 x min(benefit / 50000 x 100, 100)
\*   + 0.15 x min(priority x 100, 100) + 0.10 x readiness x 100
\*   + 0.10 x probability x 100 + 0.05 x 100, in hundredths, over RankDen
RankSum ==
    700 * RankEligibility * RankReadiness.den
        + Least(benefit_result.value, 5000000) * RankReadiness.den
        + 30000 * Least(RankPriority, 100) * RankReadiness.den
        + 2000000 * RankReadiness.num
        + 20000 * prob_result * RankReadiness.den
        + 1000000 * RankReadiness.den

\* C15: _calculate_rank_score is 0.35 x percentage + 0.25 x min(benefit /
\* 50000 x 100, 100) + 0.15 x min(priority x 100, 100) + 0.10 x readiness x
\* 100 + 0.10 x probability x 100 + 0.05 x 100, to two decimals and clamped
\* to [0, 100]; the priority defaults to 1.0 and the benefit is the estimate
\* reported for the recommendation.
C15_RankScoreFormula ==
    pc = "estimated" =>
        IF RankSum <= 0 THEN rank_result.value = 0
        ELSE IF RankSum >= 10000 * RankDen THEN rank_result.value = 10000
        ELSE /\ 2 * (rank_result.value * RankDen - RankSum) <= RankDen
             /\ 2 * (RankSum - rank_result.value * RankDen) <= RankDen

\* A score inside the range with every component at work: a third of the
\* documents, a benefit below the cap of 50000 and half the priority
C15_Witness ==
    /\ pc = "estimated"
    /\ RankReadiness.den = 3
    /\ RankPriority = 50
    /\ benefit_result.value > 0
    /\ benefit_result.value < 5000000
    /\ prob_result = 80
    /\ rank_result.value > 0
    /\ rank_result.value < 10000

\* C16: the score of a recommendation lies in [0, 100] for every input:
\* a very large or negative priority weight, a zero, negative or very large
\* benefit, any answer of the estimator.
C16_RankScoreInRange ==
    pc \in {"ranked", "estimated"} =>
        /\ rank_result.value >= 0
        /\ rank_result.value <= 10000

\* The components add up to more than 100 and the score is 100; or to less
\* than 0 and the score is 0
C16_Witness ==
    /\ pc = "estimated"
    /\ \/ RankSum > 10000 * RankDen /\ rank_result.value = 10000
          /\ RankPriority = 10000 /\ prob_result = 999
       \/ RankSum < 0 /\ rank_result.value = 0
          /\ RankPriority = -100 /\ benefit_result.value < 0

\* The benefit keys of the scheme being ranked, in hundredths of a rupee
\* (rate x acreage, and base x percentage / 100)
BenefitMode == Get(scheme, "benefit_type", "fixed")
BenefitMaximum == Get(scheme, "max_benefit", PyInt(10000)).n * 100
BenefitByArea == Get(scheme, "benefit_per_hectare", PyInt(5000)).n * profile.acreage.n * 100
BenefitByPercentage ==
    Get(scheme, "base_amount", PyInt(10000)).n * Get(scheme, "benefit_percentage", PyInt(50)).n

\* C17: the benefit estimate is the maximum in fixed mode, min(rate x land
\* area, maximum) in per-hectare mode, min(base amount x percentage / 100,
\* maximum) in percentage mode, and never exceeds the maximum.
C17_BenefitEstimate ==
    pc = "estimated" =>
        /\ benefit_result.value <= BenefitMaximum
        /\ BenefitMode = "per_hectare" =>
               benefit_result.value = Least(BenefitByArea, BenefitMaximum)
        /\ BenefitMode = "percentage" =>
               benefit_result.value = Least(BenefitByPercentage, BenefitMaximum)
        /\ BenefitMode \notin {"per_hectare", "percentage"} =>
               benefit_result.value = BenefitMaximum

\* A per-hectare estimate that the maximum cuts
C17_Witness ==
    /\ pc = "estimated"
    /\ BenefitMode = "per_hectare"
    /\ BenefitByArea > BenefitMaximum
    /\ BenefitMaximum > 0
    /\ benefit_result.value = BenefitMaximum

\* A percentage estimate below the maximum
C17_WitnessBelow ==
    /\ pc = "estimated"
    /\ BenefitMode = "percentage"
    /\ benefit_result.value = BenefitByPercentage
    /\ benefit_result.value < BenefitMaximum

----------------------------------------------------------------------------
(* Properties of the list rank_schemes returns, under Spec                 *)

\* The recommendation of the k-th evaluated scheme
RecommendationOf(k) == Recommend(model, eligible_results[k], profile, request.documents).value

\* eligible before partially_eligible before ineligible
Bucket(r) ==
    CASE r.eligibility_status = "eligible" -> 0
      [] r.eligibility_status = "partially_eligible" -> 1
      [] r.eligibility_status = "ineligible" -> 2
      [] OTHER -> 3

\* The x-th evaluated scheme and the y-th have the same status and score
Tied(x, y) ==
    /\ Bucket(RecommendationOf(x)) = Bucket(RecommendationOf(y))
    /\ RecommendationOf(x).score = RecommendationOf(y).score

\* The x-th evaluated scheme comes before the y-th: by status bucket, then
\* by the greater score, then by the order of evaluation
Precedes(x, y) ==
    \/ Bucket(RecommendationOf(x)) < Bucket(RecommendationOf(y))
    \/ /\ Bucket(RecommendationOf(x)) = Bucket(RecommendationOf(y))
       /\ RecommendationOf(x).score > RecommendationOf(y).score
    \/ Tied(x, y) /\ x < y

\* The ways to read the returned list as a choice of evaluated schemes, in
\* order, that leaves out no scheme coming before a returned one
Selections ==
    {f \in [1..Len(response.recommendations) -> 1..Len(eligible_results)] :
        /\ \A i \in DOMAIN f : response.recommendations[i] = RecommendationOf(f[i])
        /\ \A i, j \in DOMAIN f : i < j => Precedes(f[i], f[j])
        /\ \A k \in 1..Len(eligible_results) :
               (\A i \in DOMAIN f : f[i] # k) => \A i \in DOMAIN f : Precedes(f[i], k)}

C18_WitnessReordered ==
    /\ pc = "ranked"
    /\ Len(eligible_results) = 2
    /\ request.top_k = 2
    /\ Precedes(2, 1)
    /\ response.recommendations = <<RecommendationOf(2), RecommendationOf(1)>>

\* The scheme evaluated second returned alone
C18_WitnessCut ==
    /\ pc = "ranked"
    /\ Len(eligible_results) = 2
    /\ request.top_k = 1
    /\ ~Tied(1, 2)
    /\ response.recommendations = <<RecommendationOf(2)>>

\* No estimator is loaded, or the loaded one raises on every call
EstimatorFails == model.kind = "none" \/ model.raises

\* What rank_schemes answers to the request with the estimator m
RankedWith(m) ==
    rank_schemes(m, eligible_results, profile, request.documents, request.top_k)

\* A classifier that answers 0.8
WorkingEstimator == [kind |-> "predict_proba", prob |-> 80, raises |-> FALSE]

\* C19: without an estimator, or with one that raises, the success
\* probability of every recommendation is 0.5 and rank_schemes returns the
\* complete ordered list wherever it returns one with a working estimator.
C19_NeutralProbability ==
    EstimatorFails =>
        /\ pc = "ranked" =>
               /\ \A i \in DOMAIN response.recommendations :
                      response.recommendations[i].success_probability = 50
               /\ Len(response.recommendations)
                      = Least(request.top_k, Len(eligible_results))
               /\ Selections # {}
        /\ (pc = "failed" /\ eligible_results # <<>>) =>
               RankedWith(WorkingEstimator).raised

\* An estimator that raises, and two recommendations returned
C19_Witness ==
    /\ model.raises
    /\ pc = "ranked"
    /\ Len(response.recommendations) = 2
    /\ \A i \in DOMAIN response.recommendations :
           response.recommendations[i].success_probability = 50

\* No estimator, and a recommendation returned
C19_WitnessNone ==
    /\ model.kind = "none"
    /\ pc = "ranked"
    /\ Len(response.recommendations) >= 1
    /\ response.recommendations[1].success_probability = 50

\* C20: the success probability predict_probability hands to
\* _calculate_rank_score lies in [0, 1], whatever the loaded model answers.
C20_ProbabilityInUnitInterval ==
    pc \in {"predicted", "ranked", "estimated"} =>
        /\ prob_result >= 0
        /\ prob_result <= 100

----------------------------------------------------------------------------
(* Properties of match_schemes on a request without schemes, under Spec    *)

\* C22: a request that supplies zero schemes is answered with an empty list
\* of recommendations and total_schemes_evaluated = 0, without error; no
\* other catalogue is evaluated in their place.
C22_ZeroSchemesZeroEvaluated ==
    (request.schemes = PyList(<<>>) /\ pc \in {"found", "ranked", "failed"}) =>
        /\ eligible_results = <<>>
        /\ pc # "failed"
        /\ pc = "ranked" =>
               /\ response.status = 200
               /\ response.recommendations = <<>>
               /\ response.total_schemes_evaluated = 0

----------------------------------------------------------------------------
(* Calls of _build_why_array on given lists of matched and failing rules   *)

\* The largest number of matched rules handed to _build_why_array
MaxMatched == 10

\* The largest number of failing rules handed to _build_why_array
MaxFailing == 3

\* Names that tell the rules of a list apart
RuleNames == <<"a", "b", "c", "d", "e", "f", "g", "h", "i", "j", "k", "l">>

\* The ways _build_why_array renders a matched rule: "==" with its value, an
\* ordering comparison with the check mark, the description, nothing at all
MatchKinds == {"value", "ordered", "description", "silent"}

\* The i-th matched rule of a list, of the kind k
MatchedOfKind(k, i) ==
    [rule_id |-> PyStr(<<RuleNames[i]>>),
     field |-> IF k = "ordered" THEN "acreage" ELSE "state",
     operator |-> CASE k = "value" -> "=="
                    [] k = "ordered" -> "<="
                    [] OTHER -> "contains",
     expected_value |-> IF k = "ordered" THEN PyInt(i) ELSE PyStr(<<RuleNames[i]>>),
     actual_value |-> IF k = "ordered" THEN PyInt(0) ELSE PyStr(<<RuleNames[i]>>),
     passed |-> TRUE,
     description |-> IF k = "silent" THEN PyStr(<<>>)
                     ELSE PyStr(<<"rule ", RuleNames[i]>>)]

\* The i-th failing rule of a list
FailingOf(i) ==
    [rule_id |-> PyStr(<<RuleNames[i]>>), field |-> "state", operator |-> "==",
     expected_value |-> PyStr(<<RuleNames[i]>>), actual_value |-> PyNone,
     passed |-> FALSE, description |-> PyStr(<<"not ", RuleNames[i]>>)]

\* Lists of n matched rules whose kinds alternate between k1 and k2, and
\* lists of failing rules
WhyLists ==
    {[NoSchemeResult EXCEPT
         !.matched_rules = [i \in 1..n |-> MatchedOfKind(IF i % 2 = 1 THEN k1 ELSE k2, i)],
         !.failing_rules = [i \in 1..m |-> FailingOf(i)]]
        : n \in 0..MaxMatched, m \in 0..MaxFailing, k1 \in MatchKinds, k2 \in MatchKinds}

InitWhy ==
    /\ NoLate
    /\ scheme_result \in WhyLists
    /\ profile = Owner
    /\ scheme = NoScheme
    /\ available_documents = PyNone
    /\ score_result = NoScoreResult
    /\ rule = NoRule
    /\ rule_result = NoRuleResult
    /\ request = NoRequest
    /\ engine_schemes = <<>>
    /\ model = NoEstimator
    /\ eligible_results = <<>>
    /\ response = NoResponse
    /\ NoSteps
    /\ pc = "evaluated"

\* why_array = self._build_why_array(matched_rules, failing_rules)
BuildWhyArray ==
    /\ pc = "evaluated"
    /\ why_result' = _build_why_array(scheme_result.matched_rules,
                                       scheme_result.failing_rules)
    /\ pc' = "explained"
    /\ UNCHANGED <<profile, ruleVars, schemeVars, engineVars, requestVars, stepVars,
                   first_response, run, loopVars, reloadVars, singletonVars>>

NextWhy == BuildWhyArray

SpecWhy == InitWhy /\ [][NextWhy]_vars

\* The entry is marked as negative
Negative(entry) == entry # <<>> /\ entry[1] = "(cross mark) "

\* The number of entries of the why list that come before its negative ones
PositiveCount ==
    Cardinality({i \in DOMAIN why_result : ~Negative(why_result[i])})

RECURSIVE RendersInOrder(_, _)
\* The entries es are renderings of rules of rs, in the order of rs
RendersInOrder(es, rs) ==
    IF es = <<>> THEN TRUE
    ELSE IF rs = <<>> THEN FALSE
    ELSE IF WhyOfMatched(Head(rs)) = <<Head(es)>>
    THEN RendersInOrder(Tail(es), Tail(rs))
    ELSE RendersInOrder(es, Tail(rs))

\* C26: the why list has at most 8 entries: renderings of matched rules in
\* their order, then the descriptions of at most the first 2 failing rules
\* marked as negative; no negative entry comes before a matched-rule entry.
C26_WhyArrayShape ==
    pc = "explained" =>
        /\ Len(why_result) <= 8
        /\ Len(why_result) - PositiveCount <= 2
        /\ \A i \in DOMAIN why_result : Negative(why_result[i]) <=> i > PositiveCount
        /\ RendersInOrder(SubSeq(why_result, 1, PositiveCount),
                          scheme_result.matched_rules)
        /\ \A i \in DOMAIN why_result :
               i > PositiveCount =>
                   /\ i - PositiveCount <= Len(scheme_result.failing_rules)
                   /\ why_result[i] = <<"(cross mark) ">>
                          \o scheme_result.failing_rules[i - PositiveCount].description.s

\* Seven renderings, and only the first of three failing rules, in the
\* eighth place
C26_Witness ==
    /\ pc = "explained"
    /\ Len(why_result) = 8
    /\ PositiveCount = 7
    /\ Len(scheme_result.failing_rules) = 3
    /\ Negative(why_result[8])

\* Matched rules without a rendering, between rendered ones
C26_WitnessSilent ==
    /\ pc = "explained"
    /\ PositiveCount = 5
    /\ Len(scheme_result.matched_rules) = 10
    /\ Len(why_result) = 7

\* Few matched rules, and two of three failing rules taken
C26_WitnessTwoFailing ==
    /\ pc = "explained"
    /\ PositiveCount = 2
    /\ Len(why_result) = 4
    /\ Len(scheme_result.failing_rules) = 3

----------------------------------------------------------------------------
(* Properties of the results of find_eligible_schemes, under Spec          *)

\* schemes_to_eval of find_eligible_schemes for the request
SchemesToEval ==
    IF DynamicSchemes(request.schemes).t # "none" THEN request.schemes.l
    ELSE engine_schemes

\* The scheme ids of a list of dicts that hold a scheme under the key
SchemeIds(xs) == [i \in DOMAIN xs |-> Get(xs[i], "scheme_id", "")]

\* No value occurs twice in the list
Distinct(xs) == \A i, j \in DOMAIN xs : i # j => xs[i] # xs[j]

----------------------------------------------------------------------------
(* The verdict of a rule tree against its boolean value, under SpecScheme  *)

RECURSIVE BooleanValue(_, _)
RECURSIVE ChildrenValues(_, _)

\* The boolean values of the trees of a list
ChildrenValues(conditions, p) ==
    [i \in DOMAIN conditions |-> BooleanValue(conditions[i], p)]

\* The boolean value of a rule tree: of a leaf the verdict of its rule, of an
\* AND group the conjunction and of any other group the disjunction of the
\* values of its children
BooleanValue(condition, p) ==
    IF "conditions" \in DOMAIN condition
    THEN IF Upper(Get(condition, "logic", "AND")) = "AND"
         THEN \A i \in DOMAIN condition.conditions :
                 ChildrenValues(condition.conditions, p)[i]
         ELSE \E i \in DOMAIN condition.conditions :
                 ChildrenValues(condition.conditions, p)[i]
    ELSE _evaluate_rule(condition, p).value.passed

\* The rule tree of the scheme: its rules under its rules_logic
SchemeTree ==
    [logic |-> Get(scheme, "rules_logic", "AND"), conditions |-> Get(scheme, "rules", <<>>)]

RECURSIVE HasEmptyGroup(_)
\* Some group of the tree has no children
HasEmptyGroup(condition) ==
    /\ "conditions" \in DOMAIN condition
    /\ \/ condition.conditions = <<>>
       \/ \E i \in DOMAIN condition.conditions : HasEmptyGroup(condition.conditions[i])

\* C28: the verdict of a rule tree is its boolean value at every nesting
\* level: an AND group passes iff all its children pass, an OR group iff at
\* least one does, also when a nested group has no children.
C28_VerdictIsBooleanValue ==
    (pc \in {"evaluated", "scored"} /\ Get(scheme, "rules", <<>>) # <<>>) =>
        (scheme_result.passed <=> BooleanValue(SchemeTree, profile))

\* The verdict is the boolean value of every tree without an empty group
VerdictIsBooleanValueOfFullTrees ==
    (pc \in {"evaluated", "scored"} /\ ~HasEmptyGroup(SchemeTree)) =>
        (scheme_result.passed <=> BooleanValue(SchemeTree, profile))

----------------------------------------------------------------------------
(* The status of a recommendation against the verdict of the rules, under  *)
(* Spec                                                                    *)

\* C29: a recommendation has the eligibility status 'eligible' only if
\* evaluate_scheme judged its scheme eligible for the profile.
C29_EligibleOnlyIfRulesPassed ==
    pc = "ranked" =>
        \A k \in DOMAIN eligible_results :
            \A i \in DOMAIN response.recommendations :
                (/\ response.recommendations[i] = RecommendationOf(k)
                 /\ response.recommendations[i].eligibility_status = "eligible") =>
                    eligible_results[k].is_eligible

----------------------------------------------------------------------------
(* The same request sent twice to the same engines                         *)

InitTwice == Init

\* The client keeps the answer and sends the same request again
SendAgain ==
    /\ pc \in {"ranked", "failed"}
    /\ run = 1
    /\ first_response' = response
    /\ run' = 2
    /\ response' = NoResponse
    /\ eligible_results' = <<>>
    /\ pc' = "request"
    /\ UNCHANGED <<profile, ruleVars, schemeVars, engineVars, request, stepVars,
                   why_result, loopVars, reloadVars, singletonVars>>

NextTwice == FindEligibleSchemes \/ RankSchemes \/ SendAgain

SpecTwice == InitTwice /\ [][NextTwice]_vars

C24_InputsUnchanged ==
    [][/\ profile' = profile
       /\ request' = request
       /\ engine_schemes' = engine_schemes
       /\ model' = model]_vars

\* Both calls have returned on a request with schemes and documents
C24_Witness ==
    /\ pc = "ranked"
    /\ request.schemes # PyNone
    /\ request.documents = PyList(<<>>)
    /\ Len(eligible_results) = 2
    /\ Len(response.recommendations) >= 1

----------------------------------------------------------------------------
(* The loop of rank_schemes turn by turn, with an estimator that may not   *)
(* answer                                                                  *)

\* Schemes that find_eligible_schemes and rank_schemes take without raising
LoopSchemes ==
    {s \in RequestSchemes : Get(s, "scheme_id", "") \in {"pm", "seed", "loan"}}

\* Estimators of the loop: none loaded, a classifier, one that raises
LoopEstimators ==
    {[kind |-> "none", prob |-> 0, raises |-> FALSE],
     [kind |-> "predict_proba", prob |-> 80, raises |-> FALSE],
     [kind |-> "predict_proba", prob |-> 0, raises |-> TRUE]}

InitLoop ==
    /\ profile \in Profiles
    /\ model \in LoopEstimators
    /\ \E k \in 1..MaxTopK : request = [NoRequest EXCEPT !.top_k = k]
    /\ \E q \in SeqsUpTo(LoopSchemes, MaxSchemes) :
           eligible_results = find_eligible_schemes(<<>>, profile, PyList(q)).value
    /\ slow_calls \in SUBSET (1..Len(eligible_results))
    /\ loop_i = 1
    /\ recommendations = [raised |-> FALSE, exc |-> "", value |-> <<>>]
    /\ why_result = <<>>
    /\ first_response = NoResponse
    /\ run = 1
    /\ NoReload
    /\ NoSingleton
    /\ engine_schemes = <<>>
    /\ response = NoResponse
    /\ NoSteps
    /\ rule = NoRule
    /\ rule_result = NoRuleResult
    /\ scheme = NoScheme
    /\ scheme_result = NoSchemeResult
    /\ available_documents = PyNone
    /\ score_result = NoScoreResult
    /\ pc = "loop"

\* for result in eligible_results: ... self.hybrid_model.predict_probability(
CallEstimator ==
    /\ pc = "loop"
    /\ loop_i <= Len(eligible_results)
    /\ pc' = "predicting"
    /\ UNCHANGED <<profile, ruleVars, schemeVars, engineVars, requestVars, stepVars,
                   lateVars>>

\* predict_probability returns: at once without a model, else when the
\* estimator answers or raises; the call has no time bound
EstimatorAnswers ==
    /\ pc = "predicting"
    /\ model.kind = "none" \/ loop_i \notin slow_calls
    /\ prob_result' = predict_probability(model, profile,
                                          eligible_results[loop_i].scheme)
    /\ pc' = "predicted"
    /\ UNCHANGED <<profile, ruleVars, schemeVars, engineVars, requestVars,
                   label_input, label_result, rank_result, benefit_result, lateVars>>

\* The rest of the turn: the recommendation is built and appended
AppendTurn ==
    /\ pc = "predicted"
    /\ recommendations' =
           AppendRecommendation(recommendations,
                                Recommend(model, eligible_results[loop_i], profile,
                                          request.documents))
    /\ loop_i' = loop_i + 1
    /\ pc' = IF recommendations'.raised THEN "raise" ELSE "loop"
    /\ UNCHANGED <<profile, ruleVars, schemeVars, engineVars, requestVars, stepVars,
                   why_result, first_response, run, slow_calls, reloadVars,
                   singletonVars>>

\* recommendations.sort(...); return recommendations[:top_k]
ReturnSorted ==
    /\ pc = "loop"
    /\ loop_i > Len(eligible_results)
    /\ response' = [status |-> 200, detail |-> "",
                    total_schemes_evaluated |-> Len(eligible_results),
                    recommendations |->
                        SortedPrefix(recommendations, request.top_k).value]
    /\ pc' = "returned"
    /\ UNCHANGED <<profile, ruleVars, schemeVars, engineVars, request,
                   eligible_results, stepVars, lateVars>>

NextLoop == CallEstimator \/ EstimatorAnswers \/ AppendTurn \/ ReturnSorted

SpecLoop == InitLoop /\ [][NextLoop]_vars

\* The steps that end a turn: those of AppendTurn, which is enabled whenever
\* pc = "predicted"
TurnEnds == pc = "predicted" /\ pc' \in {"loop", "raise"}

\* The thread that runs rank_schemes goes on whenever it can
SpecLoopFair ==
    /\ SpecLoop
    /\ WF_vars(CallEstimator)
    /\ WF_vars(EstimatorAnswers)
    /\ WF_pc(TurnEnds)
    /\ WF_vars(ReturnSorted)

\* C21: rank_schemes eventually returns even if the estimator call for one
\* scheme never returns: that scheme gets the probability 0.5 and the other
\* schemes are still evaluated and ranked.
C21_EventuallyReturns ==
    <>(/\ pc = "returned"
       /\ Len(response.recommendations)
              = Least(request.top_k, Len(eligible_results)))

\* rank_schemes returns whenever every estimator call answers
ReturnsIfEstimatorAnswers ==
    (slow_calls = {} \/ model.kind = "none") => C21_EventuallyReturns

\* rank_schemes waits for the estimator in a turn that is not the last
WaitsForEstimator ==
    /\ pc = "predicting"
    /\ loop_i \in slow_calls
    /\ model.kind # "none"
    /\ loop_i < Len(eligible_results)

----------------------------------------------------------------------------
(* find_eligible_schemes over the engine's catalogue while another thread  *)
(* calls reload_schemes                                                    *)

\* The most calls of reload_schemes during one evaluation
MaxReloads == 2

\* A scheme of the schemes table: one rule, a fixed benefit
CatalogueScheme(id, benefit) ==
    [scheme_id |-> id, name |-> id, max_benefit |-> PyFloat(benefit),
     rules |-> <<[field |-> "acreage", operator |-> ">=", value |-> PyInt(2)]>>]

\* What the schemes table may hold when it is read: a scheme changed, one
\* removed and one added, the order changed, a single scheme
CatalogueVersions ==
    {<<CatalogueScheme("a", 9000), CatalogueScheme("b", 60000)>>,
     <<CatalogueScheme("a", 12000), CatalogueScheme("b", 60000)>>,
     <<CatalogueScheme("b", 60000), CatalogueScheme("c", 5000)>>,
     <<CatalogueScheme("c", 5000)>>}

InitReload ==
    /\ profile \in Profiles
    /\ engine_schemes \in CatalogueVersions
    /\ published = {engine_schemes}
    /\ iterated = <<>>
    /\ loaded = <<>>
    /\ reload_pc = "idle"
    /\ reloads = 0
    /\ NoSingleton
    /\ loop_i = 1
    /\ recommendations = [raised |-> FALSE, exc |-> "", value |-> <<>>]
    /\ slow_calls = {}
    /\ why_result = <<>>
    /\ first_response = NoResponse
    /\ run = 1
    /\ model = NoEstimator
    /\ request = NoRequest
    /\ eligible_results = <<>>
    /\ response = NoResponse
    /\ NoSteps
    /\ rule = NoRule
    /\ rule_result = NoRuleResult
    /\ scheme = NoScheme
    /\ scheme_result = NoSchemeResult
    /\ available_documents = PyNone
    /\ score_result = NoScoreResult
    /\ pc = "request"

\* schemes = self._load_schemes_from_db() (or the YAML file): a new list
ReloadLoad ==
    /\ reload_pc = "idle"
    /\ reloads < MaxReloads
    /\ loaded' \in CatalogueVersions
    /\ reload_pc' = "loaded"
    /\ reloads' = reloads + 1
    /\ UNCHANGED <<profile, ruleVars, schemeVars, engineVars, requestVars, stepVars,
                   why_result, first_response, run, loopVars, iterated, published,
                   singletonVars, pc>>

\* self.schemes = schemes
ReloadAssign ==
    /\ reload_pc = "loaded"
    /\ engine_schemes' = loaded
    /\ published' = published \cup {loaded}
    /\ reload_pc' = "idle"
    /\ UNCHANGED <<profile, ruleVars, schemeVars, model, requestVars, stepVars,
                   why_result, first_response, run, loopVars, iterated, loaded,
                   reloads, singletonVars, pc>>

\* schemes_to_eval = schemes if schemes is not None else self.schemes
BindSchemes ==
    /\ pc = "request"
    /\ iterated' = engine_schemes
    /\ loop_i' = 1
    /\ eligible_results' = <<>>
    /\ pc' = "evaluating"
    /\ UNCHANGED <<profile, ruleVars, schemeVars, engineVars, request, response,
                   stepVars, why_result, first_response, run, recommendations,
                   slow_calls, loaded, reload_pc, published, reloads, singletonVars>>

\* A loop that reads self.schemes again in every turn
IterationItem_OfSelfSchemes(schemes_to_eval, self_schemes, i) ==
    IF i <= Len(self_schemes) THEN self_schemes[i] ELSE schemes_to_eval[i]

\* for scheme in schemes_to_eval: the scheme of the i-th turn comes from the
\* list bound before the loop, whatever self.schemes holds by now
IterationItem(schemes_to_eval, self_schemes, i) == schemes_to_eval[i]

\* One turn of the loop of find_eligible_schemes
EvaluateNext ==
    /\ pc = "evaluating"
    /\ loop_i <= Len(iterated)
    /\ eligible_results' =
           AppendResult([raised |-> FALSE, exc |-> "", value |-> eligible_results],
                        IterationItem(iterated, engine_schemes, loop_i),
                        evaluate_scheme(IterationItem(iterated, engine_schemes, loop_i),
                                        profile)).value
    /\ loop_i' = loop_i + 1
    /\ pc' = IF evaluate_scheme(IterationItem(iterated, engine_schemes, loop_i),
                                profile).raised
             THEN "raise" ELSE "evaluating"
    /\ UNCHANGED <<profile, ruleVars, schemeVars, engineVars, request, response,
                   stepVars, why_result, first_response, run, recommendations,
                   slow_calls, reloadVars, singletonVars>>

\* return results
ReturnResults ==
    /\ pc = "evaluating"
    /\ loop_i > Len(iterated)
    /\ pc' = "found"
    /\ UNCHANGED <<profile, ruleVars, schemeVars, engineVars, requestVars, stepVars,
                   lateVars>>

NextReload ==
    ReloadLoad \/ ReloadAssign \/ BindSchemes \/ EvaluateNext \/ ReturnResults

SpecReload == InitReload /\ [][NextReload]_vars

\* The schemes of the results, in their order
ReportedSchemes == [i \in DOMAIN eligible_results |-> eligible_results[i].scheme]

\* C25: an evaluation over the engine's own catalogue that runs while
\* reload_schemes is called reports the schemes of one version of the
\* catalogue: as it was before some reload or as it was after it, never a
\* mixture of two.
C25_OneCatalogueVersion ==
    pc = "found" => ReportedSchemes \in published

\* A reload has replaced the catalogue during the loop, and the results
\* are those of the catalogue before it
C25_Witness ==
    /\ pc = "found"
    /\ reloads >= 1
    /\ reload_pc = "idle"
    /\ Len(iterated) = 2
    /\ engine_schemes # iterated
    /\ engine_schemes[1] # iterated[1]
    /\ ReportedSchemes = iterated

----------------------------------------------------------------------------
(* Concurrent first calls of get_rules_engine (get_ranking_engine has the  *)
(* same shape), each run in a worker thread of the dependency injection     *)

\* The most concurrent callers
MaxCallers == 3

InitSingleton ==
    /\ global_engine = 0
    /\ \E n \in 1..MaxCallers :
           /\ thread_pc = [t \in 1..n |-> "check"]
           /\ thread_engine = [t \in 1..n |-> 0]
    /\ constructed = 0
    /\ NoReload
    /\ loop_i = 1
    /\ recommendations = [raised |-> FALSE, exc |-> "", value |-> <<>>]
    /\ slow_calls = {}
    /\ why_result = <<>>
    /\ first_response = NoResponse
    /\ run = 1
    /\ profile = Owner
    /\ engine_schemes = <<>>
    /\ model = NoEstimator
    /\ request = NoRequest
    /\ eligible_results = <<>>
    /\ response = NoResponse
    /\ NoSteps
    /\ rule = NoRule
    /\ rule_result = NoRuleResult
    /\ scheme = NoScheme
    /\ scheme_result = NoSchemeResult
    /\ available_documents = PyNone
    /\ score_result = NoScoreResult
    /\ pc = "serving"

\* What the steps of get_rules_engine leave alone
SingletonFrame ==
    UNCHANGED <<profile, ruleVars, schemeVars, engineVars, requestVars, stepVars,
                why_result, first_response, run, loopVars, reloadVars, pc>>

\* if _rules_engine is None:
CheckGlobal(t) ==
    /\ thread_pc[t] = "check"
    /\ thread_pc' = [thread_pc EXCEPT ![t] = IF global_engine = 0 THEN "construct"
                                             ELSE "return"]
    /\ UNCHANGED <<global_engine, thread_engine, constructed>>
    /\ SingletonFrame

\* RulesEngine(): __init__ loads the schemes and the new instance exists
ConstructEngine(t) ==
    /\ thread_pc[t] = "construct"
    /\ constructed' = constructed + 1
    /\ thread_engine' = [thread_engine EXCEPT ![t] = constructed + 1]
    /\ thread_pc' = [thread_pc EXCEPT ![t] = "assign"]
    /\ UNCHANGED global_engine
    /\ SingletonFrame

\* _rules_engine = <the new instance>
AssignGlobal(t) ==
    /\ thread_pc[t] = "assign"
    /\ global_engine' = thread_engine[t]
    /\ thread_pc' = [thread_pc EXCEPT ![t] = "return"]
    /\ UNCHANGED <<thread_engine, constructed>>
    /\ SingletonFrame

\* return _rules_engine
ReturnGlobal(t) ==
    /\ thread_pc[t] = "return"
    /\ thread_engine' = [thread_engine EXCEPT ![t] = global_engine]
    /\ thread_pc' = [thread_pc EXCEPT ![t] = "done"]
    /\ UNCHANGED <<global_engine, constructed>>
    /\ SingletonFrame

NextSingleton ==
    \E t \in DOMAIN thread_pc :
        CheckGlobal(t) \/ ConstructEngine(t) \/ AssignGlobal(t) \/ ReturnGlobal(t)

SpecSingleton == InitSingleton /\ [][NextSingleton]_vars

\* C30: under every interleaving of concurrent first calls of
\* get_rules_engine at most one engine is constructed, and every caller
\* receives that same instance.
C30_OneEngineInstance ==
    /\ constructed <= 1
    /\ \A t, u \in DOMAIN thread_pc :
           (thread_pc[t] = "done" /\ thread_pc[u] = "done") =>
               thread_engine[t] = thread_engine[u]

\* A caller alone gets a single engine
OneEngineForOneCaller == Len(thread_pc) = 1 => C30_OneEngineInstance

====
